---- MODULE Spec2Model ----
(***************************************************************************)
(* Model of exposedfunctionality's function_parser: the type registry of   *)
(* types.py (add_type, string_to_type, type_to_string) and the docstring   *)
(* dialect parsers of docstring_parser.py that delegate to it.             *)
(*                                                                         *)
(* A text is a sequence of tokens.  A token stands for a run of characters *)
(* the code never looks inside: an identifier, one bracket, one comma, one *)
(* space, one dot, one literal.  strip / split / replace / re.match of the *)
(* source act on these sequences the way they act on the characters.       *)
(***************************************************************************)
EXTENDS Integers, Sequences, FiniteSets, TLC

VARIABLES TYPE_GETTER, STRING_GETTER, last, named, ncalls, pc, loc, doc, result,
          given, got

vars == <<TYPE_GETTER, STRING_GETTER, last, named, ncalls, pc, loc, doc, result,
          given, got>>

(***************************************************************************)
(* Bounds of the model.                                                    *)
(***************************************************************************)
\* number of public calls in one behaviour of the sequential specification
MaxCalls == 3
\* depth at which the interpreter gives up a recursion (RecursionError)
RecursionLimit == 8
\* the number of docstrings parsed in a run of SpecDoc
MaxParses == 3

(***************************************************************************)
(* Texts.                                                                  *)
(***************************************************************************)
\* tokens matched by \w+ : identifiers and digits
WordTok ==
    { "int", "float", "str", "list", "dict", "tuple", "set", "bool", "bytes",
      "bytearray", "complex", "frozenset", "memoryview", "range", "slice",
      "type", "Any", "Optional", "Union", "Type", "List", "Dict", "Tuple",
      "Literal", "Set", "None", "integer", "floating", "string", "boolean",
      "number", "optional", "OPTIONAL", "Dummy", "NoSuch", "Alias", "datetime",
      "nomod", "nope", "1", "a", "b", "first", "second", "more", "Summary",
      "Args", "Returns", "Raises", "ValueError", "wrong", "and", "x",
      "Parameters" }

\* tokens ast.literal_eval turns into a value
LiteralTok == { "1", "'a'", "None" }

\* lower() of the token contains "optional"
HasOptional(tok) == tok \in { "optional", "Optional", "OPTIONAL" }

RECURSIVE LStrip(_, _)
LStrip(s, toks) ==
    IF s # <<>> /\ Head(s) \in toks THEN LStrip(Tail(s), toks) ELSE s

RECURSIVE RStrip(_, _)
RStrip(s, toks) ==
    IF s # <<>> /\ s[Len(s)] \in toks
    THEN RStrip(SubSeq(s, 1, Len(s) - 1), toks)
    ELSE s

\* str.strip(chars)
Strip(s, toks) == RStrip(LStrip(s, toks), toks)

\* string.strip().strip(".,").strip()
Normalize(s) == Strip(Strip(Strip(s, {" "}), {".", ","}), {" "})

\* str.split(sep): the pieces between the separators, n separators give n+1 pieces
RECURSIVE Split(_, _)
Split(s, sep) ==
    IF \A i \in 1..Len(s) : s[i] # sep
    THEN <<s>>
    ELSE LET i == CHOOSE j \in 1..Len(s) :
                      s[j] = sep /\ \A k \in 1..(j - 1) : s[k] # sep
         IN  <<SubSeq(s, 1, i - 1)>> \o Split(SubSeq(s, i + 1, Len(s)), sep)

\* str.replace(tok, "")
Remove(s, tok) == SelectSeq(s, LAMBDA x : x # tok)

\* tok in string
Contains(s, tok) == \E i \in 1..Len(s) : s[i] = tok

\* position of the last occurrence, for rsplit(".", 1)
LastIndex(s, tok) ==
    CHOOSE i \in 1..Len(s) : s[i] = tok /\ \A k \in (i + 1)..Len(s) : s[k] # tok

\* ", ".join(parts)
RECURSIVE JoinComma(_)
JoinComma(parts) ==
    IF parts = <<>> THEN <<>>
    ELSE IF Len(parts) = 1 THEN parts[1]
    ELSE parts[1] \o <<",", " ">> \o JoinComma(Tail(parts))

(***************************************************************************)
(* Type identities.  A class is [k |-> "cls", n |-> its name]; a typing    *)
(* special form (Optional, Union, Literal) is k = "form"; a parameterised  *)
(* generic has its origin in k and its __args__ in a; a Literal's          *)
(* arguments are values, k = "val".                                        *)
(***************************************************************************)
Cls(n) == [k |-> "cls", n |-> n, a |-> <<>>]
Form(n) == [k |-> "form", n |-> n, a |-> <<>>]
Val(n) == [k |-> "val", n |-> n, a |-> <<>>]
Gen(k, args) == [k |-> k, n |-> "", a |-> args]

NoneType == Cls("NoneType")
NoType == [k |-> "none", n |-> "", a |-> <<>>]

\* t == u of typing: a Union and a Literal compare their arguments as a set
RECURSIVE TypeEq(_, _)
TypeEq(t, u) ==
    /\ t.k = u.k
    /\ t.n = u.n
    /\ IF t.k \in {"Union", "Literal"}
       THEN /\ \A i \in 1..Len(t.a) : \E j \in 1..Len(u.a) : TypeEq(t.a[i], u.a[j])
            /\ \A j \in 1..Len(u.a) : \E i \in 1..Len(t.a) : TypeEq(t.a[i], u.a[j])
       ELSE /\ Len(t.a) = Len(u.a)
            /\ \A i \in 1..Len(t.a) : TypeEq(t.a[i], u.a[i])

\* typing.Union[args]: nested unions are flattened, duplicates dropped, and a
\* union of one type is that type
RECURSIVE Flatten(_)
Flatten(args) ==
    IF args = <<>> THEN <<>>
    ELSE (IF Head(args).k = "Union" THEN Head(args).a ELSE <<Head(args)>>)
         \o Flatten(Tail(args))

RECURSIVE Dedup(_, _)
Dedup(args, seen) ==
    IF args = <<>> THEN seen
    ELSE IF \E i \in 1..Len(seen) : TypeEq(seen[i], Head(args))
         THEN Dedup(Tail(args), seen)
         ELSE Dedup(Tail(args), Append(seen, Head(args)))

MkUnion(args) ==
    LET flat == Dedup(Flatten(args), <<>>)
    IN  IF Len(flat) = 1 THEN flat[1] ELSE Gen("Union", flat)

\* typing.Optional[t]
MkOptional(t) == MkUnion(<<t, NoneType>>)

\* typing.Literal[items]: duplicates dropped
MkLiteral(vals) == Gen("Literal", Dedup(vals, <<>>))

(***************************************************************************)
(* The environment of importlib: the importable modules and their          *)
(* attributes.  Any other module name fails to import.                     *)
(***************************************************************************)
DateTime == Cls("datetime")
CustomTypeA == Cls("CustomTypeA")

ModuleAttrs ==
    { [mod |-> <<"datetime">>, attr |-> <<"datetime">>, t |-> DateTime] }

Importable(mod) == mod = <<"datetime">>

HasAttr(mod, attr) == \E m \in ModuleAttrs : m.mod = mod /\ m.attr = attr

GetAttr(mod, attr) == (CHOOSE m \in ModuleAttrs : m.mod = mod /\ m.attr = attr).t

(***************************************************************************)
(* The registry: _TYPE_GETTER maps a name to an identity, _STRING_GETTER   *)
(* an identity to its canonical name.  _STRING_GETTER is keyed by identity *)
(* under ==, so it is kept as a set of (identity, name) entries with at    *)
(* most one entry per identity.                                            *)
(***************************************************************************)
ALLOWED_BUILTINS ==
    << <<"int", Cls("int")>>, <<"float", Cls("float")>>, <<"str", Cls("str")>>,
       <<"list", Cls("list")>>, <<"dict", Cls("dict")>>,
       <<"tuple", Cls("tuple")>>, <<"set", Cls("set")>>, <<"bool", Cls("bool")>>,
       <<"bytes", Cls("bytes")>>, <<"bytearray", Cls("bytearray")>>,
       <<"complex", Cls("complex")>>, <<"frozenset", Cls("frozenset")>>,
       <<"memoryview", Cls("memoryview")>>, <<"range", Cls("range")>>,
       <<"slice", Cls("slice")>>, <<"type", Cls("type")>>, <<"Any", Cls("Any")>>,
       <<"Optional", Form("Optional")>>, <<"Union", Form("Union")>>,
       <<"Type", Gen("Type", <<>>)>>, <<"List", Cls("list")>>,
       <<"Dict", Cls("dict")>>, <<"Tuple", Cls("tuple")>>,
       <<"Literal", Form("Literal")>>, <<"Set", Cls("set")>>,
       <<"None", NoneType>> >>

\* the names added by _TYPE_GETTER.update after _STRING_GETTER was filled
SeedAliases ==
    << <<"integer", Cls("int")>>, <<"floating", Cls("float")>>,
       <<"string", Cls("str")>>, <<"boolean", Cls("bool")>>,
       <<"number", Gen("Union", <<Cls("int"), Cls("float")>>)>> >>

InSG(sg, t) == \E e \in sg : TypeEq(e.t, t)

NameOf(sg, t) == (CHOOSE e \in sg : TypeEq(e.t, t)).n

\* for k, v in _TYPE_GETTER.items(): if v not in _STRING_GETTER: ...
RECURSIVE SeedStrings(_, _)
SeedStrings(pairs, sg) ==
    IF pairs = <<>> THEN sg
    ELSE LET nm == <<Head(pairs)[1]>>
             t  == Head(pairs)[2]
         IN  SeedStrings(Tail(pairs),
                         IF InSG(sg, t) THEN sg ELSE sg \cup {[t |-> t, n |-> nm]})

SeedTypes(pairs) ==
    [nm \in { <<pairs[i][1]>> : i \in 1..Len(pairs) } |->
        pairs[CHOOSE i \in 1..Len(pairs) : <<pairs[i][1]>> = nm][2]]

InitTypeGetter == SeedTypes(ALLOWED_BUILTINS) @@ SeedTypes(SeedAliases)

InitStringGetter == SeedStrings(ALLOWED_BUILTINS, {})

Reg(tg, sg) == [tg |-> tg, sg |-> sg]

(***************************************************************************)
(* add_type(type_, name)                                                   *)
(***************************************************************************)
\* add_type without the "if type_ not in _STRING_GETTER" guard: the later
\* registration takes over the canonical name
add_type_overwrite(reg, t, name) ==
    IF name \in DOMAIN reg.tg
    THEN [out |-> "ValueError", reg |-> reg]
    ELSE [out |-> "ok",
          reg |-> Reg(reg.tg @@ (name :> t),
                      {e \in reg.sg : ~TypeEq(e.t, t)} \cup {[t |-> t, n |-> name]})]

\* add_type without the "if name in _TYPE_GETTER: raise" guard: the name is
\* rebound silently
add_type_rebind(reg, t, name) ==
    [out |-> "ok",
     reg |-> Reg((name :> t) @@ reg.tg,
                 IF InSG(reg.sg, t)
                 THEN reg.sg
                 ELSE reg.sg \cup {[t |-> t, n |-> name]})]

add_type(reg, t, name) ==
    IF name \in DOMAIN reg.tg
    THEN [out |-> "ValueError", reg |-> reg]
    ELSE [out |-> "ok",
          reg |-> Reg(reg.tg @@ (name :> t),
                      IF InSG(reg.sg, t)
                      THEN reg.sg
                      ELSE reg.sg \cup {[t |-> t, n |-> name]})]

\* try: add_type(t, name) / except ValueError: pass
TryAddType(reg, t, name) == add_type(reg, t, name).reg

(***************************************************************************)
(* type_to_string(t).  A result is [out, name, reg]: the outcome ("ok" or  *)
(* the exception raised), the name returned and the registry afterwards.   *)
(***************************************************************************)
TtsOk(name, reg) == [out |-> "ok", name |-> name, reg |-> reg]
TtsFail(reg) == [out |-> "TypeNotFoundError", name |-> <<>>, reg |-> reg]

\* str(tuple(t.__args__))[1:-1]
LiteralRepr(args) ==
    IF Len(args) = 1 THEN <<args[1].n, ",">>
    ELSE JoinComma([i \in 1..Len(args) |-> <<args[i].n>>])

RECURSIVE type_to_string(_, _)
RECURSIVE TtsArgs(_, _)

\* type_to_string(subtype) for subtype in t.__args__, left to right
TtsArgs(args, reg) ==
    IF args = <<>> THEN [out |-> "ok", names |-> <<>>, reg |-> reg]
    ELSE LET r == type_to_string(Head(args), reg)
         IN  IF r.out # "ok"
             THEN [out |-> r.out, names |-> <<>>, reg |-> r.reg]
             ELSE LET rest == TtsArgs(Tail(args), r.reg)
                  IN  [out |-> rest.out,
                       names |-> <<r.name>> \o rest.names,
                       reg |-> rest.reg]

get_by_typing(t, reg) ==
    IF t.k \in {"List", "Set", "Type"} /\ Len(t.a) >= 1
    THEN LET r == type_to_string(t.a[1], reg)
         IN  IF r.out = "ok"
             THEN TtsOk(<<t.k, "[">> \o r.name \o <<"]">>, r.reg)
             ELSE r
    ELSE IF t.k = "Dict"
    THEN LET r == TtsArgs(SubSeq(t.a, 1, 2), reg)
         IN  IF r.out = "ok"
             THEN TtsOk(<<"Dict", "[">> \o r.names[1] \o <<",", " ">>
                            \o r.names[2] \o <<"]">>, r.reg)
             ELSE TtsFail(r.reg)
    ELSE IF t.k \in {"Tuple", "Union"}
    THEN LET r == TtsArgs(t.a, reg)
         IN  IF r.out = "ok"
             THEN TtsOk(<<t.k, "[">> \o JoinComma(r.names) \o <<"]">>, r.reg)
             ELSE TtsFail(r.reg)
    ELSE IF t.k = "Literal"
    THEN TtsOk(<<"Literal", "[">> \o LiteralRepr(t.a) \o <<"]">>, reg)
    ELSE [out |-> "none", name |-> <<>>, reg |-> reg]

\* type_to_string registering the rendered name for the first argument of
\* the generic instead of the generic itself
type_to_string_argument(t, reg) ==
    IF InSG(reg.sg, t)
    THEN TtsOk(NameOf(reg.sg, t), reg)
    ELSE LET ans == get_by_typing(t, reg)
         IN  IF ans.out = "ok"
             THEN TtsOk(ans.name,
                        TryAddType(ans.reg, IF t.a # <<>> THEN t.a[1] ELSE t,
                                   ans.name))
             ELSE IF ans.out # "none"
             THEN ans
             ELSE IF t.k = "cls" /\ \E m \in ModuleAttrs : m.t = t
             THEN LET m == CHOOSE m \in ModuleAttrs : m.t = t
                      nm == m.mod \o <<".">> \o m.attr
                  IN  TtsOk(nm, TryAddType(reg, t, nm))
             ELSE TtsFail(reg)

type_to_string(t, reg) ==
    IF InSG(reg.sg, t)
    THEN TtsOk(NameOf(reg.sg, t), reg)
    ELSE LET ans == get_by_typing(t, reg)
         IN  IF ans.out = "ok"
             THEN TtsOk(ans.name, TryAddType(ans.reg, t, ans.name))
             ELSE IF ans.out # "none"
             THEN ans
             ELSE IF t.k = "cls" /\ \E m \in ModuleAttrs : m.t = t
             THEN LET m == CHOOSE m \in ModuleAttrs : m.t = t
                      nm == m.mod \o <<".">> \o m.attr
                  IN  TtsOk(nm, TryAddType(reg, t, nm))
             ELSE TtsFail(reg)

(***************************************************************************)
(* string_to_type(string).  A result is [out, val, name, cause, reg,       *)
(* calls]: the outcome ("ok" or the exception raised), the identity        *)
(* returned, the type_name and the __cause__ of a TypeNotFoundError, the   *)
(* registry afterwards and the number of string_to_type frames entered.    *)
(***************************************************************************)
SttOk(t, reg, calls) ==
    [out |-> "ok", val |-> t, name |-> <<>>, cause |-> "none", reg |-> reg,
     calls |-> calls]

SttRaise(exc, name, cause, reg, calls) ==
    [out |-> exc, val |-> NoType, name |-> name, cause |-> cause, reg |-> reg,
     calls |-> calls]

\* the result of a frame that calls a nested frame r and lets its exception pass
Propagate(r) == [r EXCEPT !.calls = @ + 1]

\* typing rejects a plain special form as a type argument
ArgOk(t) == t.k # "form"

\* re.match(r"(\w+)\[(.*)\]$", string): the length of group 1, or 0
WordRun(s) ==
    IF s = <<>> \/ s[1] \notin WordTok THEN 0
    ELSE CHOOSE k \in 1..Len(s) :
             /\ \A i \in 1..k : s[i] \in WordTok
             /\ (k = Len(s) \/ s[k + 1] \notin WordTok)

ParamMatch(s) ==
    LET k == WordRun(s)
    IN  k >= 1 /\ Len(s) >= k + 2 /\ s[k + 1] = "[" /\ s[Len(s)] = "]"

MainType(s) == SubSeq(s, 1, WordRun(s))

Content(s) == SubSeq(s, WordRun(s) + 2, Len(s) - 1)

\* ast.literal_eval(item.strip())
LiteralEval(item) ==
    LET it == Strip(item, {" "})
    IN  IF Len(it) = 1 /\ it[1] \in LiteralTok THEN [out |-> "ok", val |-> Val(it[1])]
        ELSE IF Len(it) = 1 /\ it[1] \in WordTok
        THEN [out |-> "ValueError", val |-> NoType]
        ELSE [out |-> "SyntaxError", val |-> NoType]

RECURSIVE string_to_type_rec(_, _, _)
RECURSIVE SttItems(_, _, _)

\* tuple(map(string_to_type, items)), left to right, stopping at the first raise
SttItems(items, reg, d) ==
    IF items = <<>>
    THEN [out |-> "ok", vals |-> <<>>, name |-> <<>>, cause |-> "none",
          reg |-> reg, calls |-> 0]
    ELSE LET r == string_to_type_rec(Head(items), reg, d)
         IN  IF r.out # "ok"
             THEN [out |-> r.out, vals |-> <<>>, name |-> r.name,
                   cause |-> r.cause, reg |-> r.reg, calls |-> r.calls]
             ELSE LET rest == SttItems(Tail(items), r.reg, d)
                  IN  [out |-> rest.out, vals |-> <<r.val>> \o rest.vals,
                       name |-> rest.name, cause |-> rest.cause,
                       reg |-> rest.reg, calls |-> r.calls + rest.calls]

\* main_type[...] of typing on the resolved arguments
Subscript(k, v) ==
    IF k = "Union" THEN (IF Len(v) >= 2 THEN MkUnion(v) ELSE v[1])
    ELSE IF k = "Optional" THEN MkOptional(v[1])
    ELSE Gen(k, v)

\* the generic built from the resolved arguments r, or typing's TypeError
Build(k, r) ==
    IF r.out # "ok"
    THEN SttRaise(r.out, r.name, r.cause, r.reg, r.calls)
    ELSE IF (k # "Union" \/ Len(r.vals) >= 2)
            /\ \E i \in 1..Len(r.vals) : ~ArgOk(r.vals[i])
    THEN SttRaise("TypeError", <<>>, "none", r.reg, r.calls)
    ELSE SttOk(Subscript(k, r.vals), r.reg, r.calls)

handle_param_type(main_type, content, string, reg, d) ==
    IF main_type \in {<<"List">>, <<"Type">>, <<"Set">>, <<"Optional">>}
    THEN Build(main_type[1], SttItems(<<content>>, reg, d))
    ELSE IF main_type = <<"Dict">>
    THEN LET parts == Split(content, ",")
         IN  IF Len(parts) # 2
             THEN SttRaise("ValueError", <<>>, "none", reg, 0)
             ELSE Build("Dict",
                        SttItems(<<Strip(parts[1], {" "}), Strip(parts[2], {" "})>>,
                                 reg, d))
    ELSE IF main_type \in {<<"Tuple">>, <<"Union">>}
    THEN Build(main_type[1], SttItems(Split(content, ","), reg, d))
    ELSE IF main_type = <<"Literal">>
    THEN LET items == SelectSeq([i \in 1..Len(Split(content, ",")) |->
                                    Strip(Split(content, ",")[i], {" "})],
                                LAMBDA it : it # <<>>)
             evals == [i \in 1..Len(items) |-> LiteralEval(items[i])]
         IN  IF \E i \in 1..Len(evals) : evals[i].out # "ok"
             THEN SttRaise(evals[CHOOSE i \in 1..Len(evals) :
                                    /\ evals[i].out # "ok"
                                    /\ \A j \in 1..(i - 1) : evals[j].out = "ok"].out,
                           <<>>, "none", reg, 0)
             ELSE SttOk(MkLiteral([i \in 1..Len(evals) |-> evals[i].val]), reg, 0)
    ELSE SttRaise("TypeNotFoundError", string, "none", reg, 0)

\* one frame of string_to_type on a str, d frames deep
string_to_type_rec(s, reg, d) ==
    IF d > RecursionLimit
    THEN SttRaise("RecursionError", <<>>, "none", reg, 1)
    ELSE
    LET string == Normalize(s)
    IN  IF string \in DOMAIN reg.tg
        THEN SttOk(reg.tg[string], reg, 1)
        ELSE IF ParamMatch(string)
        THEN LET h == handle_param_type(MainType(string), Content(string),
                                        string, reg, d + 1)
             IN  IF h.out # "ok"
                 THEN Propagate(h)
                 ELSE LET back == type_to_string(h.val, h.reg)
                      IN  IF back.out # "ok"
                          THEN SttRaise(back.out, <<>>, "none", back.reg, h.calls + 1)
                          ELSE SttOk(h.val,
                                     TryAddType(TryAddType(back.reg, h.val, back.name),
                                                h.val, string),
                                     h.calls + 1)
        ELSE
        LET dotted == Contains(string, ".")
            module_name == IF dotted
                           THEN SubSeq(string, 1, LastIndex(string, ".") - 1)
                           ELSE <<>>
            class_name == IF dotted
                          THEN SubSeq(string, LastIndex(string, ".") + 1, Len(string))
                          ELSE <<>>
            exc == IF dotted /\ ~Importable(module_name) THEN "ImportError" ELSE "none"
        IN  IF dotted /\ Importable(module_name) /\ HasAttr(module_name, class_name)
            THEN SttOk(GetAttr(module_name, class_name),
                       TryAddType(reg, GetAttr(module_name, class_name), string), 1)
            ELSE IF \E i \in 1..Len(string) : HasOptional(string[i])
            THEN LET r == string_to_type_rec(
                              Strip(Remove(Remove(string, "optional"), "Optional"),
                                    {" "}),
                              reg, d + 1)
                 IN  IF r.out # "ok" THEN Propagate(r)
                     ELSE IF ~ArgOk(r.val)
                     THEN SttRaise("TypeError", <<>>, "none", r.reg, r.calls + 1)
                     ELSE SttOk(MkOptional(r.val), r.reg, r.calls + 1)
            ELSE SttRaise("TypeNotFoundError", string, exc, reg, 1)

(***************************************************************************)
(* The argument of a public call: a str, a type identity or another value  *)
(* (the integer 10).                                                       *)
(***************************************************************************)
StrArg(s) == [s |-> s, t |-> NoType, tag |-> "str"]
TypeArg(t) == [s |-> <<>>, t |-> t, tag |-> "type"]
OtherArg == [s |-> <<>>, t |-> NoType, tag |-> "other"]

\* string_to_type without the isinstance(string, str) check: a value that is
\* no str is resolved like an unknown name
string_to_type_unchecked(x, reg) ==
    IF x.tag = "type" /\ x.t.k # "form"
    THEN SttOk(x.t, reg, 1)
    ELSE string_to_type_rec(x.s, reg, 1)

\* string_to_type(string) as called from outside
string_to_type(x, reg) ==
    IF x.tag = "type" /\ x.t.k # "form"
    THEN SttOk(x.t, reg, 1)
    ELSE IF x.tag # "str"
    THEN SttRaise("TypeError", <<>>, "none", reg, 1)
    ELSE string_to_type_rec(x.s, reg, 1)

(***************************************************************************)
(* The inputs the calls are drawn from.                                    *)
(***************************************************************************)
TInt == Cls("int")
TStr == Cls("str")
TFloat == Cls("float")
ListInt == Gen("List", <<TInt>>)
TupleIntStr == Gen("Tuple", <<TInt, TStr>>)
DictStrTuple == Gen("Dict", <<TStr, TupleIntStr>>)
UnionIntStr == Gen("Union", <<TInt, TStr>>)
UnionStrInt == Gen("Union", <<TStr, TInt>>)
TupleUnionInt == Gen("Tuple", <<UnionIntStr, TInt>>)
OptionalInt == MkOptional(TInt)
TypeInt == Gen("Type", <<TInt>>)
LiteralOneA == Gen("Literal", <<Val("1"), Val("'a'")>>)

Primitives == { TInt, NoneType, DateTime }

Composites ==
    { ListInt, DictStrTuple, TupleUnionInt, UnionIntStr, UnionStrInt, OptionalInt,
      TypeInt, LiteralOneA }

TypeInputs == Primitives \cup Composites \cup { CustomTypeA }

TxtListInt == <<"List", "[", "int", "]">>
TxtTupleIntStr == <<"Tuple", "[", "int", ",", " ", "str", "]">>
TxtDictStrTuple == <<"Dict", "[", "str", ",", " ">> \o TxtTupleIntStr \o <<"]">>
TxtUnionIntStr == <<"Union", "[", "int", ",", " ", "str", "]">>
TxtTupleUnionInt == <<"Tuple", "[">> \o TxtUnionIntStr \o <<",", " ", "int", "]">>

TextInputs ==
    { <<" ", "str", ".">>, <<"number">>,
      TxtListInt, TxtDictStrTuple, TxtUnionIntStr, TxtTupleUnionInt,
      <<"Optional", "[", "int", "]">>, <<"Set", "[", "int", "]">>,
      <<"Literal", "[", "1", ",", " ", "'a'", "]">>,
      <<"Tuple", "[">> \o TxtListInt \o <<",", " ", "NoSuch", "]">>,
      <<"NoSuch">>, <<"Dummy", "[", "int", "]">>, <<"Alias">>,
      <<"nomod", ".", "nope">>, <<"datetime", ".", "nope">>,
      <<"datetime", ".", "datetime">>, <<"nomod", ".", "optional">>,
      <<"int", ",", " ", "optional">>, <<"optional", " ", "NoSuch">>,
      <<"OPTIONAL">> }

AddTypeInputs == { TFloat, ListInt, CustomTypeA }

AddNameInputs == { <<"Alias">>, TxtListInt, <<"int">> }

(***************************************************************************)
(* State.  last is the record of the latest public call: its operation,    *)
(* its argument, its outcome and what it returned or raised.  named holds  *)
(* the (identity, name) pairs type_to_string has returned for a composite  *)
(* identity while registering the name as its canonical name.  given is   *)
(* what the latest call of the normaliser, of the signature functions or   *)
(* of the middleware was called with, got what it returned.                *)
(***************************************************************************)
\* before any such call
NoArguments == <<>>

registry == Reg(TYPE_GETTER, STRING_GETTER)

NoCall ==
    [op |-> "none", arg |-> OtherArg, name |-> <<>>, out |-> "none",
     val |-> NoType, text |-> <<>>, cause |-> "none", calls |-> 0]

\* a dict key that is not there
Missing == OtherArg

\* no record: nothing has been parsed, or the parse raised
NoResult ==
    [returned |-> FALSE, input_params |-> <<>>, output_params |-> <<>>,
     exceptions |-> <<>>, summary |-> Missing, original |-> <<>>]

Init ==
    /\ TYPE_GETTER = InitTypeGetter
    /\ STRING_GETTER = InitStringGetter
    /\ last = NoCall
    /\ named = {}
    /\ ncalls = 0
    /\ pc = [p \in {1, 2} |-> "idle"]
    /\ loc = [p \in {1, 2} |-> [t |-> NoType, name |-> <<>>]]
    /\ doc = <<>>
    /\ result = NoResult
    /\ given = NoArguments
    /\ got = NoArguments

\* a call of add_type(type_, name)
AddType(t, name) ==
    /\ ncalls < MaxCalls
    /\ LET r == add_type(registry, t, name)
       IN  /\ TYPE_GETTER' = r.reg.tg
           /\ STRING_GETTER' = r.reg.sg
           /\ last' = [NoCall EXCEPT !.op = "add_type", !.arg = TypeArg(t),
                                     !.name = name, !.out = r.out]
    /\ ncalls' = ncalls + 1
    /\ UNCHANGED <<named, pc, loc, doc, result,
                 given, got>>

\* a call of string_to_type(x)
StringToType(x) ==
    /\ ncalls < MaxCalls
    /\ LET r == string_to_type(x, registry)
       IN  /\ TYPE_GETTER' = r.reg.tg
           /\ STRING_GETTER' = r.reg.sg
           /\ last' = [NoCall EXCEPT !.op = "string_to_type", !.arg = x,
                                     !.out = r.out, !.val = r.val,
                                     !.text = r.name, !.cause = r.cause,
                                     !.calls = r.calls]
    /\ ncalls' = ncalls + 1
    /\ UNCHANGED <<named, pc, loc, doc, result,
                 given, got>>

\* a call of type_to_string(t); a str argument is returned as it is
TypeToString(x) ==
    /\ ncalls < MaxCalls
    /\ LET r == IF x.tag = "str" THEN TtsOk(x.s, registry)
                ELSE type_to_string(x.t, registry)
       IN  /\ TYPE_GETTER' = r.reg.tg
           /\ STRING_GETTER' = r.reg.sg
           /\ last' = [NoCall EXCEPT !.op = "type_to_string", !.arg = x,
                                     !.out = r.out, !.text = r.name]
           /\ named' = IF /\ x.tag = "type"
                          /\ r.out = "ok"
                          /\ x.t \in Composites
                          /\ InSG(r.reg.sg, x.t)
                          /\ NameOf(r.reg.sg, x.t) = r.name
                       THEN named \cup {[t |-> x.t, n |-> r.name]}
                       ELSE named
    /\ ncalls' = ncalls + 1
    /\ UNCHANGED <<pc, loc, doc, result,
                 given, got>>

Next ==
    \/ \E t \in AddTypeInputs, name \in AddNameInputs : AddType(t, name)
    \/ \E s \in TextInputs : StringToType(StrArg(s))
    \/ \E t \in {TInt, ListInt, Form("Union")} : StringToType(TypeArg(t))
    \/ StringToType(OtherArg)
    \/ \E t \in TypeInputs : TypeToString(TypeArg(t))
    \/ TypeToString(StrArg(<<"str">>))

Spec == Init /\ [][Next]_vars

(***************************************************************************)
(* Properties of the type registry.                                        *)
(***************************************************************************)

\* C1: round trip; when type_to_string(x) has just returned a name for a
\* primitive or supported composite x, string_to_type of that name returns a
\* type equal to x.
C1_RoundTrip ==
    ( /\ last.op = "type_to_string"
      /\ last.arg.tag = "type"
      /\ last.arg.t \in Primitives \cup Composites
      /\ last.out = "ok" )
    => LET r == string_to_type(StrArg(last.text), registry)
       IN  r.out = "ok" /\ TypeEq(r.val, last.arg.t)

\* C2: once type_to_string(t) has returned n for a composite t and registered
\* n as its canonical name, type_to_string(t) returns n, without failing, in
\* every later registry state.
C2_StableName ==
    \A e \in named :
        LET r == type_to_string(e.t, registry)
        IN  r.out = "ok" /\ r.name = e.n

C2_Witness ==
    /\ \E e \in named : e.t = ListInt /\ e.n = TxtListInt
    /\ last.op = "add_type" /\ last.out = "ok" /\ last.arg.t = ListInt

\* C3: the registry is append-only and first registration wins; no step
\* removes or rebinds a name, no step removes a canonical name, and a step adds
\* a canonical name only for an identity that has none (so the first one stays).
C3_AppendOnly ==
    [][ /\ \A nm \in DOMAIN TYPE_GETTER :
               nm \in DOMAIN TYPE_GETTER' /\ TYPE_GETTER'[nm] = TYPE_GETTER[nm]
        /\ STRING_GETTER \subseteq STRING_GETTER'
        /\ \A e \in STRING_GETTER' \ STRING_GETTER :
               /\ ~InSG(STRING_GETTER, e.t)
               /\ \A f \in STRING_GETTER' \ STRING_GETTER :
                      TypeEq(e.t, f.t) => e = f ]_vars

\* an identity with a canonical name has been registered again under a new name
C3_Witness ==
    /\ last.op = "add_type" /\ last.out = "ok"
    /\ last.name = <<"Alias">>
    /\ TYPE_GETTER[<<"Alias">>] = ListInt
    /\ NameOf(STRING_GETTER, ListInt) = TxtListInt

\* C4: the two maps are consistent in every reachable state; every identity a
\* name maps to has a canonical name, and the canonical name of an identity
\* maps back to it.
C4_Consistent ==
    /\ \A nm \in DOMAIN TYPE_GETTER : InSG(STRING_GETTER, TYPE_GETTER[nm])
    /\ \A e \in STRING_GETTER :
           e.n \in DOMAIN TYPE_GETTER /\ TypeEq(TYPE_GETTER[e.n], e.t)

\* C5: add_type with a name that is already registered raises ValueError and
\* leaves both maps unchanged.
C5_DuplicateName ==
    [][ (last'.op = "add_type" /\ last'.name \in DOMAIN TYPE_GETTER)
        => /\ last'.out = "ValueError"
           /\ TYPE_GETTER' = TYPE_GETTER
           /\ STRING_GETTER' = STRING_GETTER ]_vars

C5_Witness ==
    /\ last.op = "add_type" /\ last.out = "ValueError"
    /\ last.name = TxtListInt
    /\ TYPE_GETTER[TxtListInt] = ListInt

\* the texts of the claim: no registered name, and either no Name[...] shape or
\* an unknown head, so that the frame ends in the dotted-path step, the
\* 'optional' fallback or the final raise
KnownHeads ==
    { <<"List">>, <<"Dict">>, <<"Tuple">>, <<"Union">>, <<"Optional">>,
      <<"Type">>, <<"Set">>, <<"Literal">> }

NoResolution(s) ==
    LET string == Normalize(s)
    IN  /\ string \notin DOMAIN TYPE_GETTER
        /\ ParamMatch(string) => MainType(string) \notin KnownHeads

(***************************************************************************)
(* Two callers of add_type sharing the registry without a lock.  The       *)
(* membership tests and the stores of add_type are separate steps of the   *)
(* interpreter, and the steps of the two callers interleave.               *)
(***************************************************************************)
RaceTypes == { TFloat, ListInt, CustomTypeA }

RaceNames == { <<"Alias">>, <<"Dummy">>, <<"int">> }

InitRace ==
    /\ TYPE_GETTER = InitTypeGetter
    /\ STRING_GETTER = InitStringGetter
    /\ last = NoCall
    /\ named = {}
    /\ ncalls = 0
    /\ pc = [p \in {1, 2} |-> "check_name"]
    /\ loc \in [{1, 2} -> [t : RaceTypes, name : RaceNames]]
    /\ doc = <<>>
    /\ result = NoResult
    /\ given = NoArguments
    /\ got = NoArguments

\* if name in _TYPE_GETTER: raise ValueError
CheckName(p) ==
    /\ pc[p] = "check_name"
    /\ pc' = [pc EXCEPT ![p] = IF loc[p].name \in DOMAIN TYPE_GETTER
                               THEN "raised" ELSE "set_name"]
    /\ UNCHANGED <<TYPE_GETTER, STRING_GETTER, last, named, ncalls, loc, doc, result,
                 given, got>>

\* _TYPE_GETTER[name] = type_
SetName(p) ==
    /\ pc[p] = "set_name"
    /\ TYPE_GETTER' = (loc[p].name :> loc[p].t) @@ TYPE_GETTER
    /\ pc' = [pc EXCEPT ![p] = "check_type"]
    /\ UNCHANGED <<STRING_GETTER, last, named, ncalls, loc, doc, result,
                 given, got>>

\* if type_ not in _STRING_GETTER:
CheckType(p) ==
    /\ pc[p] = "check_type"
    /\ pc' = [pc EXCEPT ![p] = IF InSG(STRING_GETTER, loc[p].t)
                               THEN "done" ELSE "set_string"]
    /\ UNCHANGED <<TYPE_GETTER, STRING_GETTER, last, named, ncalls, loc, doc, result,
                 given, got>>

\* _STRING_GETTER[type_] = name
SetString(p) ==
    /\ pc[p] = "set_string"
    /\ STRING_GETTER' = {e \in STRING_GETTER : ~TypeEq(e.t, loc[p].t)}
                            \cup {[t |-> loc[p].t, n |-> loc[p].name]}
    /\ pc' = [pc EXCEPT ![p] = "done"]
    /\ UNCHANGED <<TYPE_GETTER, last, named, ncalls, loc, doc, result,
                 given, got>>

NextRace ==
    \E p \in {1, 2} : CheckName(p) \/ SetName(p) \/ CheckType(p) \/ SetString(p)

SpecRace == InitRace /\ [][NextRace]_vars

\* the registry after caller p's add_type and then caller q's, from the seeds
Sequential(p, q) ==
    TryAddType(TryAddType(Reg(InitTypeGetter, InitStringGetter),
                          loc[p].t, loc[p].name),
               loc[q].t, loc[q].name)

\* C6: registration races are benign; when both callers have finished, the
\* registry is the one some sequential order of the two calls produces.
C6_RaceBenign ==
    (\A p \in {1, 2} : pc[p] \in {"done", "raised"})
    => registry \in { Sequential(1, 2), Sequential(2, 1) }

\* C7: a string_to_type call that fails because no resolution succeeds raises
\* TypeNotFoundError carrying the (stripped) input text, and an import failure
\* of the dotted path is chained as its cause.
C7_TypeNotFound ==
    ( /\ last.op = "string_to_type"
      /\ last.arg.tag = "str"
      /\ NoResolution(last.arg.s)
      /\ last.out # "ok" )
    => /\ last.out = "TypeNotFoundError"
       /\ last.text = Normalize(last.arg.s)
       /\ LET string == Normalize(last.arg.s)
          IN  ( /\ Contains(string, ".")
                /\ ~Importable(SubSeq(string, 1, LastIndex(string, ".") - 1)) )
              => last.cause = "ImportError"

\* C8: string_to_type terminates; it never exhausts the recursion depth, and
\* it enters at most one frame per token of the text, plus the outer one.
C8_Terminates ==
    ( last.op = "string_to_type" /\ last.arg.tag = "str" )
    => /\ last.out # "RecursionError"
       /\ last.calls <= Len(last.arg.s) + 1

\* C9: string_to_type on a value that is neither a str nor a type raises
\* TypeError in its first frame and leaves the registry unchanged.
C9_NonType ==
    [][ (last'.op = "string_to_type" /\ last'.arg.tag = "other")
        => /\ last'.out = "TypeError"
           /\ last'.calls = 1
           /\ TYPE_GETTER' = TYPE_GETTER
           /\ STRING_GETTER' = STRING_GETTER ]_vars

C9_Witness ==
    /\ last.op = "string_to_type" /\ last.arg = OtherArg
    /\ last.out = "TypeError"
    /\ ncalls >= 2

(***************************************************************************)
(* Docstrings.  A docstring is a sequence of lines and a line is a text.   *)
(* A draft record is [out, input_params, output_params, exceptions,        *)
(* summary, reg]: out is "ok" or the exception that ended the parse, reg   *)
(* the registry afterwards.  A field a dict may lack is a tagged value:    *)
(* tag "other" for a missing key, "str" for a text, "type" for an identity *)
(* and, for a default, "val" for the value a type constructor returned.    *)
(***************************************************************************)
\* {"name": ...} with every other key missing
NewParam(name) ==
    [name |-> name, description |-> Missing, type |-> Missing,
     default |-> Missing, optional |-> "unset", positional |-> "unset"]

NewRecord(reg) ==
    [out |-> "ok", input_params |-> <<>>, output_params |-> <<>>,
     exceptions |-> <<>>, summary |-> Missing, reg |-> reg]

Raise(rec, exc, reg) == [rec EXCEPT !.out = exc, !.reg = reg]

\* the positions at which sub occurs in s
Occurrences(s, sub) ==
    { i \in 1..(Len(s) - Len(sub) + 1) : SubSeq(s, i, i + Len(sub) - 1) = sub }

\* s.split(sub) when sub occurs exactly once
SplitOnce(s, sub) ==
    LET i == CHOOSE j \in Occurrences(s, sub) : TRUE
    IN  <<SubSeq(s, 1, i - 1), SubSeq(s, i + Len(sub), Len(s))>>

\* s.replace(a + b, c) for two adjacent tokens a, b and a text c, left to right
RECURSIVE ReplacePair(_, _, _, _)
ReplacePair(s, a, b, c) ==
    IF Len(s) < 2 THEN s
    ELSE IF s[1] = a /\ s[2] = b
    THEN c \o ReplacePair(SubSeq(s, 3, Len(s)), a, b, c)
    ELSE <<s[1]>> \o ReplacePair(Tail(s), a, b, c)

\* " ".join(lines)
RECURSIVE JoinSpace(_)
JoinSpace(lines) ==
    IF lines = <<>> THEN <<>>
    ELSE IF Len(lines) = 1 THEN lines[1]
    ELSE lines[1] \o <<" ">> \o JoinSpace(Tail(lines))

\* re.match(r"([\w_]+):(.+)", s)
NameColonMatch(s) ==
    LET k == WordRun(s)
    IN  k >= 1 /\ Len(s) >= k + 2 /\ s[k + 1] = ":"

\* the first character of the line is ":"
IsFieldTok(tok) ==
    tok \in { ":", ":summary:", ":param", ":type", ":raises", ":return", ":rtype" }

\* type_(value) for the text of a default
Cast(t, s) ==
    IF t.k # "cls" \/ t = NoneType
    THEN [out |-> "TypeError", val |-> Missing]
    ELSE IF t.n \in {"int", "float"} /\ ~(Len(s) = 1 /\ s[1] \in {"1"})
    THEN [out |-> "ValueError", val |-> Missing]
    ELSE [out |-> "ok", val |-> [s |-> s, t |-> t, tag |-> "val"]]

\* the quoted alternatives of the default pattern, and what [1:-1] leaves
Quoted == { "'a'", "'1'" }

Unquote(s) ==
    IF Len(s) = 1 /\ s[1] = "'a'" THEN <<"a">>
    ELSE IF Len(s) = 1 /\ s[1] = "'1'" THEN <<"1">>
    ELSE s

\* length of the longest prefix matching [^\s.,]+
RECURSIVE BareRun(_)
BareRun(s) ==
    IF s = <<>> \/ Head(s) \in { " ", ".", ",", "defaults to" } THEN 0
    ELSE 1 + BareRun(Tail(s))

\* re.search(r"defaults to (`[^`]+`|'[^']+'|\"[^\"]+\"|[^\s.,]+)", s):
\* the leftmost position where the pattern matches, 0 when none does
DefaultMatch(s) ==
    LET hits == { i \in 1..(Len(s) - 2) :
                    /\ s[i] = "defaults to"
                    /\ s[i + 1] = " "
                    /\ BareRun(SubSeq(s, i + 2, Len(s))) >= 1 }
    IN  IF hits = {} THEN 0
        ELSE CHOOSE i \in hits : \A j \in hits : i <= j

\* the text group(1) of the match at i spans
DefaultGroup(s, i) ==
    IF s[i + 2] \in Quoted THEN <<s[i + 2]>>
    ELSE SubSeq(s, i + 2, i + 1 + BareRun(SubSeq(s, i + 2, Len(s))))

\* .replace("  ", " ").replace(" .", ".").replace(" ,", ",")
\* .replace(" :", ":").replace(",.", ".").strip()
CleanDescription(s) ==
    Strip(ReplacePair(ReplacePair(ReplacePair(ReplacePair(ReplacePair(
        s, " ", " ", <<" ">>), " ", ".", <<".">>), " ", ",", <<",">>),
        " ", ":", <<":">>), ",", ".", <<".">>), {" "})

\* lines 30-49: the description and the default before the type is used
UnifyDefault(p) ==
    LET d  == Strip(p.description.s, {" "})
        i  == DefaultMatch(d)
        g  == DefaultGroup(d, i)
        d2 == IF i = 0 THEN d
              ELSE Strip(SubSeq(d, 1, i - 1) \o SubSeq(d, i + 2 + Len(g), Len(d)),
                         {" "})
        df == IF i # 0 /\ p.default.tag = "other" THEN StrArg(Unquote(g))
              ELSE p.default
        dq == IF df.tag = "str" THEN StrArg(Unquote(df.s)) ELSE df
    IN  [p EXCEPT !.description = StrArg(d2), !.default = dq]

\* the flags as a parser would default them: optional False when unset
UnifyFlags_optional_false(p) ==
    LET c   == CleanDescription(p.description.s)
        d   == IF c # <<>> /\ c[Len(c)] # "." THEN c \o <<".">> ELSE c
        pos == IF p.positional # "unset" THEN p.positional
               ELSE IF p.default.tag # "other" \/ p.optional = "True"
               THEN "False" ELSE "True"
        opt == IF p.optional # "unset" THEN p.optional ELSE "False"
    IN  [p EXCEPT !.description = IF d = <<>> THEN Missing ELSE StrArg(d),
                  !.positional = pos, !.optional = opt]

\* lines 56-82: description clean-up, the two flags, the empty description
UnifyFlags(p) ==
    LET c   == CleanDescription(p.description.s)
        d   == IF c # <<>> /\ c[Len(c)] # "." THEN c \o <<".">> ELSE c
        pos == IF p.positional # "unset" THEN p.positional
               ELSE IF p.default.tag # "other" \/ p.optional = "True"
               THEN "False" ELSE "True"
        opt == IF p.optional # "unset" THEN p.optional
               ELSE IF p.default.tag # "other" \/ pos = "False"
               THEN "True" ELSE "False"
    IN  [p EXCEPT !.description = IF d = <<>> THEN Missing ELSE StrArg(d),
                  !.positional = pos, !.optional = opt]

\* type_to_string of a dict entry that holds a text or an identity
TypeName(x, reg) ==
    IF x.tag = "str" THEN TtsOk(x.s, reg) ELSE type_to_string(x.t, reg)

\* lines 53-82 for a parameter with a type, n the outcome of type_to_string
UnifyNamed(p, n) ==
    IF n.out # "ok" THEN [out |-> n.out, p |-> p, reg |-> n.reg]
    ELSE [out |-> "ok", p |-> UnifyFlags([p EXCEPT !.type = StrArg(n.name)]),
          reg |-> n.reg]

\* lines 53-82
UnifyType(p, reg) ==
    IF p.type.tag = "other"
    THEN [out |-> "ok", p |-> UnifyFlags(p), reg |-> reg]
    ELSE UnifyNamed(p, TypeName(p.type, reg))

\* lines 50-82 for a parameter with a default and a type, r the outcome of
\* string_to_type on the type
UnifyResolved(p, r) ==
    LET cv == Cast(r.val, p.default.s)
    IN  IF r.out # "ok" THEN [out |-> r.out, p |-> p, reg |-> r.reg]
        ELSE IF cv.out # "ok" THEN [out |-> cv.out, p |-> p, reg |-> r.reg]
        ELSE UnifyType([p EXCEPT !.default = cv.val], r.reg)

\* lines 50-82 for a parameter whose description is stripped
UnifyTyped(p, reg) ==
    IF p.default.tag # "other" /\ p.type.tag # "other"
    THEN UnifyResolved(p, string_to_type(p.type, reg))
    ELSE UnifyType(p, reg)

\* one pass of the loop at lines 29-82: [out, p, reg]
UnifyInput(p, reg) ==
    IF p.description.tag = "other"
    THEN [out |-> "KeyError", p |-> p, reg |-> reg]
    ELSE UnifyTyped(UnifyDefault(p), reg)

RECURSIVE UnifyInputs(_, _, _)
\* the rest of the loop once the parameter at position i is done
UnifyRest(ps, i, u) ==
    IF u.out # "ok" THEN [out |-> u.out, ps |-> ps, reg |-> u.reg]
    ELSE UnifyInputs([ps EXCEPT ![i] = u.p], i + 1, u.reg)

\* the loop at lines 29-82 over the parameters from position i on
UnifyInputs(ps, i, reg) ==
    IF i > Len(ps) THEN [out |-> "ok", ps |-> ps, reg |-> reg]
    ELSE UnifyRest(ps, i, UnifyInput(ps[i], reg))

\* outputs numbered from one
Named_from_one(os, i) ==
    IF os[i].name.tag = "other"
    THEN [os EXCEPT ![i].name =
              StrArg(IF Len(os) > 1 THEN <<"out", ToString(i)>>
                     ELSE <<"out">>)]
    ELSE os

\* param["name"] = f"out{i}" if len(...) > 1 else "out", if it has no name
Named(os, i) ==
    IF os[i].name.tag = "other"
    THEN [os EXCEPT ![i].name =
              StrArg(IF Len(os) > 1 THEN <<"out", ToString(i - 1)>>
                     ELSE <<"out">>)]
    ELSE os

RECURSIVE UnifyOutputTypes(_, _, _)
\* the rest of the loop once type_to_string has answered n for position i
UnifyOutputRest(os, i, n) ==
    IF n.out # "ok" THEN [out |-> n.out, ps |-> os, reg |-> n.reg]
    ELSE UnifyOutputTypes([os EXCEPT ![i].type = StrArg(n.name)], i + 1, n.reg)

\* the loop at lines 84-90 over the outputs from position i on
UnifyOutputTypes(os, i, reg) ==
    IF i > Len(os) THEN [out |-> "ok", ps |-> os, reg |-> reg]
    ELSE IF os[i].type.tag = "other"
    THEN UnifyOutputTypes(Named(os, i), i + 1, reg)
    ELSE UnifyOutputRest(Named(os, i), i, TypeName(os[i].type, reg))

\* lines 92-110, outs the outcome of the loop over the outputs
UnifyFinish(rec, ins, outs) ==
    IF outs.out # "ok" THEN Raise(rec, outs.out, outs.reg)
    ELSE IF \E i \in 1..Len(outs.ps) : outs.ps[i].description.tag = "other"
    THEN Raise(rec, "KeyError", outs.reg)
    ELSE [out |-> "ok",
          input_params |-> ins.ps,
          output_params |->
              [i \in 1..Len(outs.ps) |->
                  [outs.ps[i] EXCEPT !.description =
                      IF Strip(@.s, {" "}) = <<>> THEN Missing
                      ELSE StrArg(Strip(@.s, {" "}))]],
          exceptions |->
              [i \in 1..Len(rec.exceptions) |->
                  [rec.exceptions[i] EXCEPT !.text = Strip(@, {" "})]],
          summary |-> IF rec.summary.tag = "str"
                      THEN StrArg(Strip(rec.summary.s, {" ", "\n"}))
                      ELSE rec.summary,
          reg |-> outs.reg]

\* lines 84-110, ins the outcome of the loop over the inputs
UnifyOutputs(rec, ins) ==
    IF ins.out # "ok" THEN Raise(rec, ins.out, ins.reg)
    ELSE UnifyFinish(rec, ins, UnifyOutputTypes(rec.output_params, 1, ins.reg))

_unify_parser_results(rec) ==
    UnifyOutputs(rec, UnifyInputs(rec.input_params, 1, rec.reg))

\* {"description": ...} of a return section
NewOutput(desc) == [name |-> Missing, description |-> desc, type |-> Missing]

\* result["exceptions"][name] = text: a dict keeps the position of a key it has
SetException(excs, name, text) ==
    IF \E i \in 1..Len(excs) : excs[i].name = name
    THEN [i \in 1..Len(excs) |->
             IF excs[i].name = name THEN [excs[i] EXCEPT !.text = text]
             ELSE excs[i]]
    ELSE Append(excs, [name |-> name, text |-> text])

\* lines 154-165: a line starting with ":" opens a section, the lines of a
\* section are joined with " "
RECURSIVE Sections(_, _)
Sections(lines, current) ==
    IF lines = <<>>
    THEN IF current = <<>> THEN <<>> ELSE <<JoinSpace(current)>>
    ELSE IF IsFieldTok(Head(lines)[1]) /\ current # <<>>
    THEN <<JoinSpace(current)>> \o Sections(Tail(lines), <<Head(lines)>>)
    ELSE Sections(Tail(lines), Append(current, Head(lines)))

\* lines 178-197
RstParam(rec, section) ==
    LET psection == Strip(Remove(section, ":param"), {" "})
        k    == WordRun(psection)
        desc == Strip(SubSeq(psection, k + 2, Len(psection)), {" "})
        cut  == SplitOnce(desc, <<"defaults to">>)
        p    == [NewParam(SubSeq(psection, 1, k)) EXCEPT !.optional = "False"]
    IN  IF ~NameColonMatch(psection)
        THEN Raise(rec, IF k >= 1 THEN "IndexError" ELSE "ValueError", rec.reg)
        ELSE IF ~Contains(desc, "defaults to")
        THEN [rec EXCEPT !.input_params =
                  Append(@, [p EXCEPT !.description = StrArg(desc)])]
        ELSE IF Cardinality(Occurrences(desc, <<"defaults to">>)) # 1
        THEN Raise(rec, "ValueError", rec.reg)
        ELSE [rec EXCEPT !.input_params =
                  Append(@, [p EXCEPT
                      !.description = StrArg(Strip(cut[1], {" ", ","})),
                      !.default = StrArg(Strip(cut[2], {" "}))])]

\* TypeTarget taking the last parameter when the name is unknown
TypeTarget_fallback(ps, psection) ==
    LET name == Strip(Split(psection, ":")[1], {" "})
        hits == { i \in 1..Len(ps) : ps[i].name = name }
    IN  IF ~Contains(psection, ":") \/ hits = {} THEN Len(ps)
        ELSE CHOOSE i \in hits : \A j \in hits : i <= j

\* lines 204-216: the position of the parameter a :type section is about,
\* 0 when a name is given that no parameter has
TypeTarget(ps, psection) ==
    LET name == Strip(Split(psection, ":")[1], {" "})
        hits == { i \in 1..Len(ps) : ps[i].name = name }
    IN  IF ~Contains(psection, ":") THEN Len(ps)
        ELSE IF hits = {} THEN 0
        ELSE CHOOSE i \in hits : \A j \in hits : i <= j

\* lines 218-226 for the parameter at position i, r the outcome of
\* string_to_type
RstTypeSet(rec, i, opt, r) ==
    IF r.out # "ok" THEN Raise(rec, r.out, r.reg)
    ELSE [rec EXCEPT
             !.input_params[i].type = TypeArg(r.val),
             !.input_params[i].optional = IF opt THEN "True" ELSE "False",
             !.reg = r.reg]

\* RstTypeOf forgetting the flag of ", optional"
RstTypeOf_not_optional(rec, i, ty) ==
    IF /\ Contains(ty, "optional")
       /\ Cardinality(Occurrences(ty, <<",", " ", "optional">>)) # 1
    THEN Raise(rec, "ValueError", rec.reg)
    ELSE RstTypeSet(rec, i, FALSE,
             string_to_type(
                 StrArg(IF Contains(ty, "optional")
                        THEN Strip(SplitOnce(ty, <<",", " ", "optional">>)[1],
                                   {" "})
                        ELSE ty),
                 rec.reg))

\* lines 218-226 for the parameter at position i and the text ty after its name
RstTypeOf(rec, i, ty) ==
    IF /\ Contains(ty, "optional")
       /\ Cardinality(Occurrences(ty, <<",", " ", "optional">>)) # 1
    THEN Raise(rec, "ValueError", rec.reg)
    ELSE RstTypeSet(rec, i, Contains(ty, "optional"),
             string_to_type(
                 StrArg(IF Contains(ty, "optional")
                        THEN Strip(SplitOnce(ty, <<",", " ", "optional">>)[1],
                                   {" "})
                        ELSE ty),
                 rec.reg))

\* lines 198-226
RstType(rec, section) ==
    LET psection == Strip(Remove(section, ":type"), {" "})
        i == TypeTarget(rec.input_params, psection)
    IN  IF rec.input_params = <<>> \/ i = 0
        THEN Raise(rec, "ValueError", rec.reg)
        ELSE RstTypeOf(rec, i,
                 Strip(IF Contains(psection, ":")
                       THEN SubSeq(psection, Len(Split(psection, ":")[1]) + 2,
                                   Len(psection))
                       ELSE psection, {" "}))

\* lines 227-232
RstRaises(rec, section) ==
    LET rsection == Strip(Remove(section, ":raises"), {" "})
        k == WordRun(rsection)
    IN  IF ~NameColonMatch(rsection) THEN Raise(rec, "ValueError", rec.reg)
        ELSE [rec EXCEPT !.exceptions =
                  SetException(@, SubSeq(rsection, 1, k),
                      Strip(SubSeq(rsection, k + 2, Len(rsection)), {" "}))]

\* lines 233-236
RstReturn(rec, section) ==
    [rec EXCEPT !.output_params =
        Append(@, NewOutput(StrArg(Strip(ReplacePair(section, ":return", ":", <<>>),
                                         {" "}))))]

\* line 241, r the outcome of string_to_type
RstRtypeSet(rec, r) ==
    IF r.out # "ok" THEN Raise(rec, r.out, r.reg)
    ELSE [rec EXCEPT !.output_params[1].type = TypeArg(r.val), !.reg = r.reg]

\* lines 237-241
RstRtype(rec, section) ==
    IF rec.output_params = <<>> THEN Raise(rec, "ValueError", rec.reg)
    ELSE RstRtypeSet(rec,
             string_to_type(
                 StrArg(Strip(ReplacePair(section, ":rtype", ":", <<>>), {" "})),
                 rec.reg))

\* lines 174-177
RstSummary(rec, section) ==
    LET t == Strip(Remove(section, ":summary:"), {" "})
    IN  IF t = <<>> THEN rec ELSE [rec EXCEPT !.summary = StrArg(t)]

\* the loop at lines 173-241; an exception ends it
RECURSIVE RstSections(_, _)
RstSections(rec, sections) ==
    IF sections = <<>> \/ rec.out # "ok" THEN rec
    ELSE RstSections(
             CASE Head(sections)[1] = ":summary:" -> RstSummary(rec, Head(sections))
               [] Head(sections)[1] = ":param"    -> RstParam(rec, Head(sections))
               [] Head(sections)[1] = ":type"     -> RstType(rec, Head(sections))
               [] Head(sections)[1] = ":raises"   -> RstRaises(rec, Head(sections))
               [] Head(sections)[1] = ":return"   -> RstReturn(rec, Head(sections))
               [] Head(sections)[1] = ":rtype"    -> RstRtype(rec, Head(sections))
               [] OTHER                           -> rec,
             Tail(sections))

\* lines 243, 376 and 425-428: the record goes n times through the
\* normaliser; a record that raised goes no further
RECURSIVE Unified(_, _)
Unified(rec, n) ==
    IF n = 0 \/ rec.out # "ok" THEN rec
    ELSE Unified(_unify_parser_results(rec), n - 1)

\* lines 148-241: the record before the normaliser
RstDraft(docstring, reg) ==
    RstSections(NewRecord(reg),
        Sections(SelectSeq([i \in 1..(Len(docstring) + 1) |->
                               Strip((<<<<":summary:">>>> \o docstring)[i], {" "})],
                           LAMBDA l : l # <<>>),
                 <<>>))

parse_restructured_docstring(docstring, reg) ==
    Unified(RstDraft(docstring, reg), 1)

\* length of the longest prefix matching [\w\[\], ]+
RECURSIVE TypeRun(_)
TypeRun(s) ==
    IF s # <<>> /\ Head(s) \in WordTok \cup { "[", "]", ",", " " }
    THEN 1 + TypeRun(Tail(s))
    ELSE 0

\* re.match(r"(\w+) \(([\w\[\], ]+)\)", line)
MatchType(line) ==
    LET k == WordRun(line)
        n == TypeRun(SubSeq(line, k + 3, Len(line)))
    IN  /\ k >= 1 /\ Len(line) >= k + 4
        /\ line[k + 1] = " " /\ line[k + 2] = "("
        /\ n >= 1 /\ Len(line) >= k + 3 + n /\ line[k + 3 + n] = ")"

\* group(2) of MatchType
TypeGroup(line) ==
    LET k == WordRun(line)
    IN  SubSeq(line, k + 3, k + 2 + TypeRun(SubSeq(line, k + 3, Len(line))))

\* the position after the ")" of MatchType
AfterType(line) ==
    WordRun(line) + 4 + TypeRun(SubSeq(line, WordRun(line) + 3, Len(line)))

\* re.match(r"(\w+) \(([\w\[\], ]+)\): (.+)", line)
MatchFull(line) ==
    /\ MatchType(line)
    /\ Len(line) >= AfterType(line) + 2
    /\ line[AfterType(line)] = ":" /\ line[AfterType(line) + 1] = " "

\* re.match(r"(\w+): (.+)", line)
MatchDesc(line) ==
    LET k == WordRun(line)
    IN  k >= 1 /\ Len(line) >= k + 3 /\ line[k + 1] = ":" /\ line[k + 2] = " "

\* re.match(r"([\w\[\], ]+): (.+)", line)
MatchReturn(line) ==
    LET n == TypeRun(line)
    IN  n >= 1 /\ Len(line) >= n + 3 /\ line[n + 1] = ":" /\ line[n + 2] = " "

GoogleRaise(st, exc, reg) == [st EXCEPT !.rec = Raise(st.rec, exc, reg)]

\* last_param["description"] += " " + line
Continue(st, line) ==
    IF st.last_param.kind = "in"
    THEN [st EXCEPT !.rec.input_params[st.last_param.i].description =
              StrArg(@.s \o <<" ">> \o line)]
    ELSE IF st.last_param.kind = "out"
    THEN [st EXCEPT !.rec.output_params[st.last_param.i].description =
              StrArg(@.s \o <<" ">> \o line)]
    ELSE st

\* lines 334-343: [optional, type], type <<>> when none is given
TypeOpt(type_opt) ==
    IF Contains(type_opt, "optional")
    THEN [optional |-> "True",
          type |-> IF Len(Split(type_opt, ",")) > 1
                   THEN Split(type_opt, ",")[1] ELSE <<>>]
    ELSE [optional |-> "False", type |-> type_opt]

\* lines 345-354: the parameter is appended and becomes last_param
GoogleAppend(st, p, reg) ==
    [st EXCEPT !.rec.input_params = Append(@, p),
               !.rec.reg = reg,
               !.last_param = [kind |-> "in",
                               i |-> Len(st.rec.input_params) + 1]]

\* lines 350-354, r the outcome of string_to_type
GoogleArgTyped(st, p, r) ==
    IF r.out # "ok" THEN GoogleRaise(st, r.out, r.reg)
    ELSE GoogleAppend(st, [p EXCEPT !.type = TypeArg(r.val)], r.reg)

\* lines 334-354 for a line one of the three patterns matches
GoogleParam(st, name, to, desc) ==
    IF to.type = <<>>
    THEN GoogleAppend(st, [NewParam(name) EXCEPT !.description = StrArg(desc),
                                                  !.optional = to.optional],
                      st.rec.reg)
    ELSE GoogleArgTyped(st,
             [NewParam(name) EXCEPT !.description = StrArg(desc),
                                    !.optional = to.optional],
             string_to_type(StrArg(to.type), st.rec.reg))

\* lines 311-354
GoogleArg(st, line) ==
    IF ~MatchType(line) /\ ~MatchDesc(line)
    THEN IF st.last_param.kind = "none"
         THEN GoogleRaise(st, "TypeError", st.rec.reg)
         ELSE Continue(st, line)
    ELSE GoogleParam(st, SubSeq(line, 1, WordRun(line)),
             IF MatchType(line) THEN TypeOpt(TypeGroup(line))
             ELSE [optional |-> "False", type |-> <<>>],
             IF MatchFull(line) THEN SubSeq(line, AfterType(line) + 2, Len(line))
             ELSE IF MatchType(line) THEN <<>>
             ELSE SubSeq(line, WordRun(line) + 3, Len(line)))

\* lines 358-363, r the outcome of string_to_type
GoogleOutput(st, desc, r) ==
    IF r.out # "ok" THEN GoogleRaise(st, r.out, r.reg)
    ELSE [st EXCEPT
             !.rec.output_params =
                 Append(@, [NewOutput(StrArg(desc)) EXCEPT !.type = TypeArg(r.val)]),
             !.rec.reg = r.reg,
             !.last_param = [kind |-> "out",
                             i |-> Len(st.rec.output_params) + 1]]

\* lines 355-365
GoogleReturn(st, line) ==
    IF ~MatchReturn(line) THEN Continue(st, line)
    ELSE GoogleOutput(st, SubSeq(line, TypeRun(line) + 3, Len(line)),
             string_to_type(StrArg(SubSeq(line, 1, TypeRun(line))), st.rec.reg))

\* lines 366-374
GoogleRaises(st, line) ==
    LET k == WordRun(line)
        name == SubSeq(line, 1, k)
        e == st.last_exception
    IN  IF MatchDesc(line)
        THEN [st EXCEPT
                 !.rec.exceptions =
                     SetException(@, name,
                                  Strip(SubSeq(line, k + 3, Len(line)), {" "})),
                 !.last_exception = StrArg(name)]
        ELSE IF e.tag = "other"
        THEN GoogleRaise(st, "UnboundLocalError", st.rec.reg)
        ELSE [st EXCEPT !.rec.exceptions =
                  [i \in 1..Len(@) |->
                      IF @[i].name = e.s
                      THEN [@[i] EXCEPT !.text = @ \o <<" ">> \o line]
                      ELSE @[i]]]

\* lines 305-309
GoogleSummary(st, line) ==
    [st EXCEPT !.rec.summary =
        IF @.tag = "other" THEN StrArg(line)
        ELSE StrArg(@.s \o <<" ">> \o line)]

StartsWith(line, a, b) == Len(line) >= 2 /\ line[1] = a /\ line[2] = b

\* the loop at lines 297-374 over the state [rec, section, last_param,
\* last_exception]; last_param is no dict, an input or an output parameter;
\* an exception ends the loop
RECURSIVE GoogleLines(_, _)
GoogleLines(st, lines) ==
    IF lines = <<>> \/ st.rec.out # "ok" THEN st.rec
    ELSE GoogleLines(
             CASE StartsWith(Head(lines), "Args", ":") ->
                      [st EXCEPT !.section = "Args"]
               [] StartsWith(Head(lines), "Returns", ":") ->
                      [st EXCEPT !.section = "Returns"]
               [] StartsWith(Head(lines), "Raises", ":") ->
                      [st EXCEPT !.section = "Raises"]
               [] OTHER ->
                      CASE st.section = "Sum"     -> GoogleSummary(st, Head(lines))
                        [] st.section = "Args"    -> GoogleArg(st, Head(lines))
                        [] st.section = "Returns" -> GoogleReturn(st, Head(lines))
                        [] OTHER                  -> GoogleRaises(st, Head(lines)),
             Tail(lines))

\* docstring.strip().split("\n") with every line stripped
TrimLines(lines) ==
    LET ls == [i \in 1..Len(lines) |-> Strip(lines[i], {" "})]
    IN  IF Strip(ls, {<<>>}) = <<>> THEN << <<>> >> ELSE Strip(ls, {<<>>})

\* lines 284-374: the record before the normaliser
GoogleDraft(docstring, reg) ==
    GoogleLines([rec |-> NewRecord(reg), section |-> "Sum",
                 last_param |-> [kind |-> "none", i |-> 0],
                 last_exception |-> Missing],
                TrimLines(docstring))

parse_google_docstring(docstring, reg) ==
    Unified(GoogleDraft(docstring, reg), 1)

(***************************************************************************)
(* The choice of the dialect.  The docstring is searched as one text, its  *)
(* lines joined by "\n"; the text ":param" is always the token ":param".   *)
(***************************************************************************)
RECURSIVE JoinNewline(_)
JoinNewline(lines) ==
    IF lines = <<>> THEN <<>>
    ELSE IF Len(lines) = 1 THEN lines[1]
    ELSE lines[1] \o <<"\n">> \o JoinNewline(Tail(lines))

\* ^\s*([a-zA-Z_]\w*) from the line start i: the position after the match,
\* 0 when there is none
IdentifierEnd(s, i) ==
    LET r == LStrip(SubSeq(s, i, Len(s)), {" ", "\n"})
    IN  IF WordRun(r) = 0 \/ r[1] = "1" THEN 0
        ELSE Len(s) - Len(r) + WordRun(r) + 1

\* re.search(r"^\s*([a-zA-Z_]\w*)\s?\(.*\):", s, re.MULTILINE)
GoogleWithTypes(s) ==
    \E i \in { n \in 1..Len(s) : n = 1 \/ s[n - 1] = "\n" } :
        /\ IdentifierEnd(s, i) # 0
        /\ \E p \in { IdentifierEnd(s, i), IdentifierEnd(s, i) + 1 } :
              /\ p <= Len(s)
              /\ p = IdentifierEnd(s, i) + 1 => s[p - 1] \in {" ", "\n"}
              /\ s[p] = "("
              /\ \E j \in (p + 1)..(Len(s) - 1) :
                    /\ s[j] = ")"
                    /\ s[j + 1] = ":"
                    /\ \A n \in (p + 1)..(j - 1) : s[n] # "\n"

\* re.search(r"^\s*([a-zA-Z_]\w*):", s, re.MULTILINE)
GoogleNoTypes(s) ==
    \E i \in { n \in 1..Len(s) : n = 1 \/ s[n - 1] = "\n" } :
        /\ IdentifierEnd(s, i) # 0
        /\ IdentifierEnd(s, i) <= Len(s)
        /\ s[IdentifierEnd(s, i)] = ":"

\* the function returned, by its name
select_extraction_function(docstring) ==
    IF \E i \in 1..Len(docstring) :
           \E tok \in { ":param", ":raises", ":return" } :
               Contains(docstring[i], tok)
    THEN "parse_restructured_docstring"
    ELSE IF GoogleWithTypes(JoinNewline(docstring))
    THEN "parse_google_docstring"
    ELSE IF GoogleNoTypes(JoinNewline(docstring))
    THEN "parse_google_docstring"
    ELSE "None"

\* {"summary": docstring} cut down to the first line of the docstring
SummaryOnly_first_line(docstring, reg) ==
    [NewRecord(reg) EXCEPT !.summary = StrArg(Head(docstring))]

\* line 427: {"summary": docstring}
SummaryOnly(docstring, reg) ==
    [NewRecord(reg) EXCEPT !.summary = StrArg(JoinNewline(docstring))]

\* lines 425-428: the record before the normaliser, of the parser f or the
\* summary-only record
Extracted(f, docstring, reg) ==
    IF f = "None" THEN SummaryOnly(docstring, reg)
    ELSE IF f = "parse_restructured_docstring" THEN RstDraft(docstring, reg)
    ELSE GoogleDraft(docstring, reg)

\* lines 425-428: the record of a parser has been through the normaliser
\* once when parse_docstring passes it through again
parse_docstring(docstring, reg) ==
    Unified(Extracted(select_extraction_function(docstring), docstring, reg),
            IF select_extraction_function(docstring) = "None" THEN 1 ELSE 2)

(***************************************************************************)
(* Docstring inputs.                                                       *)
(***************************************************************************)
FragmentInputs ==
    { <<"int">>, <<"NoSuch">>, <<"Alias">>, TxtListInt,
      <<"int", ",", " ", "optional">> }

\* ":param a: first" / ":type a: <ty>"
RstTyped(ty) ==
    << <<"Summary">>,
       <<":param", " ", "a", ":", " ", "first">>,
       <<":type", " ", "a", ":", " ">> \o ty >>

\* ":return: more" / ":rtype: <ty>"
RstReturnTyped(ty) ==
    << <<":return", ":", " ", "more">>, <<":rtype", ":", " ">> \o ty >>

\* "Args:" / "a (<ty>): first"
GoogleTyped(ty) ==
    << <<"Summary">>, <<>>, <<"Args", ":">>,
       <<" ", "a", " ", "(">> \o ty \o <<")", ":", " ", "first">> >>

\* "Returns:" / "<ty>: more"
GoogleReturnTyped(ty) ==
    << <<"Returns", ":">>, <<" ">> \o ty \o <<":", " ", "more">> >>

\* ":param a: first, defaults to <v>" / ":type a: <ty>, optional" /
\* ":param b: second" / ":type b: str"
RstDefaulted(v, ty) ==
    << <<":param", " ", "a", ":", " ", "first", ",", " ", "defaults to", " ">>
           \o v,
       <<":type", " ", "a", ":", " ">> \o ty \o <<",", " ", "optional">>,
       <<":param", " ", "b", ":", " ", "second">>,
       <<":type", " ", "b", ":", " ", "str">> >>

DefaultInputs == { <<"1">>, <<"'1'">>, <<"'a'">> }

DefaultTypes == { <<"int">>, <<"str">>, TxtListInt }

\* ":param a: first" / ":param b: second" / ":type<form>": a :type field
\* that names no parameter
RstNameless(form) ==
    << <<":param", " ", "a", ":", " ", "first">>,
       <<":param", " ", "b", ":", " ", "second">>,
       <<":type">> \o form >>

\* ":type int" and ":type: int"
NamelessForms == { <<" ", "int">>, <<":", " ", "int">> }

\* ":param a: first" followed by one more field
RstField(field) == << <<":param", " ", "a", ":", " ", "first">>, field >>

FieldInputs ==
    { <<":type", " ", "int">>,
      <<":type", " ", "b", ":", " ", "int">>,
      <<":type", " ", "a", ":">>,
      <<":raises", " ", "ValueError">>,
      <<":raises", " ", "ValueError", ":", " ", "wrong">> }

RstDocs ==
    { RstTyped(ty) : ty \in FragmentInputs }
    \cup { RstNameless(form) : form \in NamelessForms }
    \cup { RstField(field) : field \in FieldInputs }
    \cup { RstDefaulted(v, ty) : v \in DefaultInputs, ty \in DefaultTypes }
    \cup { RstReturnTyped(ty) : ty \in { <<"NoSuch">>, TxtListInt } }
    \cup { << <<":param", " ", "a", ":", " ", "first", ",", " ",
                "defaults to", " ", "1">>,
              <<":type", " ", "a", ":", " ", "int", ",", " ", "optional">> >>,
           << <<":param", " ", "a">> >>,
           << <<":type", " ", "a", ":", " ", "int">> >>,
           << <<":param", " ", "a", ":", " ", "first">>,
              <<":param", " ", "b", ":", " ", "second">>,
              <<":type", " ", "int">>,
              <<":raises", " ", "ValueError", ":", " ", "wrong">>,
              <<"more">> >> }

\* the sections in before, then "Args:", the lines in args and the line
\* "and more", which no pattern of an Args line matches
GoogleContinued(before, args) ==
    before \o << <<"Args", ":">> >> \o args \o << <<" ", "and", " ", "more">> >>

SectionInputs ==
    { <<>>,
      << <<"Returns", ":">>, <<" ", "int", ":", " ", "more">> >>,
      << <<"Raises", ":">>, <<" ", "ValueError", ":", " ", "wrong">> >> }

ArgInputs == { <<>>, << <<" ", "a", " ", "(", "int", ")", ":", " ", "first">> >> }

GoogleDocs ==
    { GoogleTyped(ty) : ty \in FragmentInputs }
    \cup { GoogleContinued(before, args) :
               before \in SectionInputs, args \in ArgInputs }
    \cup { GoogleReturnTyped(ty) : ty \in { <<"NoSuch">>, TxtListInt } }
    \cup { << <<"Args", ":">>,
              <<"a", ":", " ", "first", " ", "defaults to", " ", "'a'", ".">>,
              <<"more">>,
              <<"Raises", ":">>,
              <<"ValueError", ":", " ", "wrong">>,
              <<"more">> >>,
           << <<"Args", ":">>, <<"wrong", " ", "more">> >>,
           << <<"Raises", ":">>, <<"wrong", " ", "more">> >>,
           << <<"Args", ":">>, <<>>, <<"a", ":", " ", "first">> >>,
           << <<"first">>, <<"Returns", ":">>, <<"wrong", " ", "more">>,
              <<>>, <<"Args", ":">>, <<"a", ":", " ", "first">>, <<>>,
              <<"Raises", ":">>, <<"ValueError", ":", " ", "wrong">>, <<>> >> }

\* "Summary" / "" / "Parameters" / "----------" / "x : int" / " first", and
\* the same with a line "a: first" after the summary
NumpyDocs ==
    { << <<"Summary">> >> \o extra \o
      << <<>>, <<"Parameters">>, <<"----------">>,
         <<"x", " ", ":", " ", "int">>, <<" ", "first">> >> :
        extra \in { <<>>, << <<"a", ":", " ", "first">> >> } }

\* docstrings of no dialect, and lines that nearly are parameter lines
PlainDocs ==
    { << <<" ", "first", " ", "more">>, <<" ", "second", " ">> >>,
      << <<"first", " ", ":param">> >>,
      << <<"1", ":", " ", "first">> >>,
      << <<"a", "(", "int", ")", ":", " ", "first">> >>,
      << <<"a", " ", " ", "(", "int", ")", ":", " ", "first">> >>,
      << <<"first", " ", "a", ":", " ", "more">> >>,
      << <<"a">>, <<"(", "int", ")", ":", " ", "first">> >> }

\* descriptions the normaliser does not leave as they are
TwiceDocs ==
    { << <<"Args", ":">>, <<" ", "a", " ", "(", "int", ")">> >>,
      << <<"Args", ":">>,
         <<" ", "a", ":", " ", "first", " ", " ", " ", "more">> >>,
      << <<":param", " ", "a", ":", " ", "defaults to", " ", "1">> >> }

DocInputs == RstDocs \cup GoogleDocs \cup NumpyDocs \cup PlainDocs \cup TwiceDocs

(***************************************************************************)
(* The parsers as operations on the registry.                              *)
(***************************************************************************)
\* what the caller holds after the call: the record, or nothing if it raised
Returned(rec, d) ==
    IF rec.out # "ok" THEN NoResult
    ELSE [returned |-> TRUE, input_params |-> rec.input_params,
          output_params |-> rec.output_params, exceptions |-> rec.exceptions,
          summary |-> rec.summary, original |-> d]

Parsed(op, d, rec) ==
    /\ ncalls < MaxParses
    /\ TYPE_GETTER' = rec.reg.tg
    /\ STRING_GETTER' = rec.reg.sg
    /\ doc' = d
    /\ result' = Returned(rec, d)
    /\ last' = [NoCall EXCEPT !.op = op, !.out = rec.out]
    /\ ncalls' = ncalls + 1
    /\ UNCHANGED <<named, pc, loc, given, got>>

ParseRst(d) ==
    \E rec \in { parse_restructured_docstring(d, registry) } :
        Parsed("parse_restructured_docstring", d, rec)

ParseGoogle(d) ==
    \E rec \in { parse_google_docstring(d, registry) } :
        Parsed("parse_google_docstring", d, rec)

ParseDocstring(d) ==
    \E rec \in { parse_docstring(d, registry) } :
        Parsed("parse_docstring", d, rec)

\* a call of select_extraction_function(d); last.text names what it returned
Select(d) ==
    /\ ncalls < MaxParses
    /\ doc' = d
    /\ result' = NoResult
    /\ last' = [NoCall EXCEPT !.op = "select_extraction_function",
                              !.out = "ok",
                              !.text = <<select_extraction_function(d)>>]
    /\ ncalls' = ncalls + 1
    /\ UNCHANGED <<TYPE_GETTER, STRING_GETTER, named, pc, loc, given, got>>

\* a caller registering its own type before a docstring is parsed
RegisterAlias ==
    /\ ncalls < MaxParses
    /\ AddType(CustomTypeA, <<"Alias">>)

NextDoc ==
    \/ \E d \in RstDocs : ParseRst(d)
    \/ \E d \in GoogleDocs : ParseGoogle(d)
    \/ \E d \in DocInputs : ParseDocstring(d)
    \/ \E d \in DocInputs : Select(d)
    \/ RegisterAlias

SpecDoc == Init /\ [][NextDoc]_vars

ParseOps == { "parse_restructured_docstring", "parse_google_docstring" }

\* the docstrings whose only type fragment is ty
TypedDocs(ty) ==
    { RstTyped(ty), RstReturnTyped(ty), GoogleTyped(ty), GoogleReturnTyped(ty) }

\* C10: in every dialect parser a parameter or return type fragment on which
\* string_to_type raises TypeNotFoundError does not abort the parse: the
\* parser returns a record in which that parameter has no type and the other
\* fields are parsed as usual.
C10_UnresolvedTypeTolerated ==
    [][ \A ty \in FragmentInputs :
          ( /\ last'.op \in ParseOps
            /\ doc' \in TypedDocs(ty)
            /\ string_to_type(StrArg(ty), registry).out = "TypeNotFoundError" )
          => /\ last'.out = "ok"
             /\ result'.returned
             /\ Len(result'.input_params) + Len(result'.output_params) = 1
             /\ \A i \in 1..Len(result'.input_params) :
                    /\ result'.input_params[i].type = Missing
                    /\ result'.input_params[i].name = <<"a">>
                    /\ result'.input_params[i].description
                           = StrArg(<<"first", ".">>)
             /\ \A i \in 1..Len(result'.output_params) :
                    /\ result'.output_params[i].type = Missing
                    /\ result'.output_params[i].description
                           = StrArg(<<"more">>) ]_vars

\* the identity a type text of DefaultTypes resolves to
C11_TypeOf(ty) ==
    IF ty = <<"int">> THEN TInt ELSE IF ty = <<"str">> THEN TStr ELSE ListInt

C12_Body(line) == Strip(Tail(line), {" "})

\* the field reads "NAME:" and something, whatever follows
C12_Names(line) ==
    /\ WordRun(C12_Body(line)) >= 1
    /\ Len(C12_Body(line)) > WordRun(C12_Body(line))
    /\ C12_Body(line)[WordRun(C12_Body(line)) + 1] = ":"

C12_Name(line) == SubSeq(C12_Body(line), 1, WordRun(C12_Body(line)))

\* some earlier line of d is the :param field of the parameter line i names
C12_Declared(d, i) ==
    \E j \in 1..(i - 1) :
        d[j][1] = ":param" /\ C12_Name(d[j]) = C12_Name(d[i])

\* every line before line i is summary text or a ":param NAME: text" field
C12_PlainBefore(d, i) ==
    \A j \in 1..(i - 1) :
        \/ ~IsFieldTok(d[j][1])
        \/ /\ d[j][1] = ":param"
           /\ NameColonMatch(C12_Body(d[j]))
           /\ ~Contains(d[j], "defaults to")

\* C12 as stated: parse_restructured_docstring fails with ValueError and
\* returns no record when a :type or :raises field cannot be matched to the
\* shape "NAME: text", or a :type field names a parameter that no earlier
\* :param field declared.
C12_FieldErrors ==
    ( /\ last.op = "parse_restructured_docstring"
      /\ \E i \in 1..Len(doc) :
            /\ C12_PlainBefore(doc, i)
            /\ \/ /\ doc[i][1] \in { ":type", ":raises" }
                  /\ ~NameColonMatch(C12_Body(doc[i]))
               \/ /\ doc[i][1] = ":type"
                  /\ C12_Names(doc[i])
                  /\ ~C12_Declared(doc, i) )
    => last.out = "ValueError" /\ ~result.returned

\* C12 amended: parse_restructured_docstring fails with ValueError and
\* returns no record when a :raises field cannot be matched to the shape
\* "NAME: text", when a :type field names a parameter that no earlier :param
\* field declared, or when a :type field comes before every :param field,
\* the fields before it being well-formed :param fields.
C12_FieldErrorsAmended ==
    ( /\ last.op = "parse_restructured_docstring"
      /\ \E i \in 1..Len(doc) :
            /\ C12_PlainBefore(doc, i)
            /\ \/ /\ doc[i][1] = ":raises"
                  /\ ~NameColonMatch(C12_Body(doc[i]))
               \/ /\ doc[i][1] = ":type"
                  /\ C12_Names(doc[i])
                  /\ ~C12_Declared(doc, i)
               \/ /\ doc[i][1] = ":type"
                  /\ \A j \in 1..(i - 1) : doc[j][1] # ":param" )
    => last.out = "ValueError" /\ ~result.returned

C12_Witness ==
    /\ last.op = "parse_restructured_docstring"
    /\ doc = RstField(<<":type", " ", "b", ":", " ", "int">>)
    /\ last.out = "ValueError"
    /\ ~result.returned

\* C13: a :type field that names no parameter sets the type of the most
\* recently declared :param parameter and of no other, whether it is written
\* ":type T" or ":type: T".
C13_NamelessType ==
    \A form \in NamelessForms :
        ( last.op = "parse_restructured_docstring" /\ doc = RstNameless(form) )
        => /\ last.out = "ok"
           /\ result.returned
           /\ Len(result.input_params) = 2
           /\ result.input_params[1].type = Missing
           /\ result.input_params[2].type = StrArg(<<"int">>)

\* C14: in parse_google_docstring, whatever sections come before Args, a
\* line of Args that matches none of the three parameter forms is appended,
\* joined with a space, to the description of the most recently declared
\* input parameter, and changes no output parameter and no exception.
C14_ContinuationLine ==
    \A before \in SectionInputs, args \in ArgInputs :
        ( last.op = "parse_google_docstring"
          /\ doc = GoogleContinued(before, args) )
        => /\ args # <<>> =>
                 /\ last.out = "ok"
                 /\ result.returned
                 /\ Len(result.input_params) = 1
                 /\ result.input_params[1].description
                        = StrArg(<<"first", " ", "and", " ", "more", ".">>)
           /\ result.returned =>
                 /\ \A i \in 1..Len(result.output_params) :
                        result.output_params[i].description = StrArg(<<"more">>)
                 /\ \A i \in 1..Len(result.exceptions) :
                        result.exceptions[i].text = <<"wrong">>

\* the line starts, after blanks, with "name:" or with "name (...):", the
\* blank before the bracket being optional
C15_Named(line) ==
    LET l == LStrip(line, {" "})
        k == WordRun(l)
    IN  /\ k >= 1
        /\ l[1] # "1"
        /\ Len(l) > k
        /\ \/ l[k + 1] = ":"
           \/ \E p \in { k + 1, k + 2 } :
                 /\ p <= Len(l)
                 /\ p = k + 2 => l[k + 1] = " "
                 /\ l[p] = "("
                 /\ \E j \in (p + 1)..(Len(l) - 1) :
                       l[j] = ")" /\ l[j + 1] = ":"

\* C15: select_extraction_function picks the reStructuredText parser for a
\* docstring containing ":param", ":raises" or ":return"; without such a
\* marker it picks Google exactly when some line starts with "name (type):"
\* or a bare "name:", and returns none otherwise.
C15_Selection ==
    last.op = "select_extraction_function"
    => last.text =
         << IF \E i \in 1..Len(doc) :
                   \E tok \in { ":param", ":raises", ":return" } :
                       \E j \in 1..Len(doc[i]) : doc[i][j] = tok
            THEN "parse_restructured_docstring"
            ELSE IF \E i \in 1..Len(doc) : C15_Named(doc[i])
            THEN "parse_google_docstring"
            ELSE "None" >>

\* C16: a docstring with a section title underlined by dashes selects
\* parse_numpy_docstring, also when a line of it looks like a Google line.
C16_NumpySelected ==
    ( last.op = "select_extraction_function" /\ doc \in NumpyDocs )
    => last.text = <<"parse_numpy_docstring">>

\* C17: when no dialect matches, parse_docstring returns the summary-only
\* record: summary is the whole text trimmed, input_params, output_params
\* and exceptions are empty, original is the text as it was given.
C17_SummaryOnly ==
    ( /\ last.op = "parse_docstring"
      /\ select_extraction_function(doc) = "None" )
    => /\ last.out = "ok"
       /\ result.returned
       /\ result.summary = StrArg(Strip(JoinNewline(doc), {" ", "\n"}))
       /\ result.input_params = <<>>
       /\ result.output_params = <<>>
       /\ result.exceptions = <<>>
       /\ result.original = doc

C17_Witness ==
    /\ last.op = "parse_docstring"
    /\ doc = << <<" ", "first", " ", "more">>, <<" ", "second", " ">> >>
    /\ result.returned
    /\ result.summary = StrArg(<<"first", " ", "more", "\n", " ", "second">>)

\* C18: for a docstring whose selected dialect parser accepts it,
\* parse_docstring returns exactly what that parser returns for the same
\* text: the second pass through the normaliser neither fails nor changes
\* a field.
C18_SecondPassNeutral ==
    [][ ( /\ last'.op = "parse_docstring"
          /\ select_extraction_function(doc') # "None" )
        => LET first == IF select_extraction_function(doc')
                              = "parse_restructured_docstring"
                        THEN parse_restructured_docstring(doc', registry)
                        ELSE parse_google_docstring(doc', registry)
           IN  first.out = "ok"
               => /\ last'.out = "ok"
                  /\ result' = Returned(first, doc') ]_vars

\* the operations that return a normalised record
C19_Parsers ==
    { "parse_restructured_docstring", "parse_google_docstring",
      "parse_docstring" }

\* C19: parsing the same docstring twice in a row with the same parser
\* gives the same outcome and the same record, whatever the first parse
\* added to the registry.
C19_Repeatable ==
    [][ ( /\ last.op \in C19_Parsers
          /\ last'.op = last.op
          /\ doc' = doc )
        => /\ last'.out = last.out
           /\ result' = result ]_vars

\* a record parsed in a registry that an earlier parse has extended
C19_Witness ==
    /\ ncalls >= 2
    /\ last.op \in C19_Parsers
    /\ doc = RstTyped(TxtListInt)
    /\ result.returned
    /\ TxtListInt \in DOMAIN TYPE_GETTER

\* C20: in every record a parser returns, a parameter that carries a
\* default is optional, and a positional parameter without a default is not
\* optional, also when the default comes from "defaults to X" in the
\* description and the parser had set optional itself.
C20_OptionalInvariant ==
    result.returned =>
        \A i \in 1..Len(result.input_params) :
            /\ result.input_params[i].default # Missing
                   => result.input_params[i].optional = "True"
            /\ ( /\ result.input_params[i].positional = "True"
                 /\ result.input_params[i].default = Missing )
                   => result.input_params[i].optional = "False"

(***************************************************************************)
(* The normaliser on draft records.  A draft is what a dialect parser      *)
(* hands to _unify_parser_results: parameters with a name and whatever     *)
(* else the dialect found, flags set or not.                                *)
(***************************************************************************)
\* the number of drafts normalised in a run of SpecUnify
MaxDrafts == 2

DraftDescriptions ==
    { Missing, StrArg(<<>>), StrArg(<<" ", "first", " ">>),
      StrArg(<<"first", ".">>),
      StrArg(<<"first", ",", " ", "defaults to", " ", "1">>),
      StrArg(<<"defaults to", " ", "'a'">>) }

DraftTypes == { Missing, TypeArg(TInt), TypeArg(ListInt) }

DraftDefaults == { Missing, StrArg(<<"1">>) }

Flags == { "unset", "True", "False" }

\* drafts of one input parameter
DraftInputs ==
    { [name |-> <<"a">>, description |-> d, type |-> t, default |-> df,
       optional |-> o, positional |-> po] :
        d \in DraftDescriptions, t \in DraftTypes, df \in DraftDefaults,
        o \in Flags, po \in Flags }

\* drafts of an output parameter
DraftOutputs ==
    { [name |-> n, description |-> d, type |-> t] :
        n \in { Missing, StrArg(<<"total">>) },
        d \in { Missing, StrArg(<<>>), StrArg(<<" ", "more">>) },
        t \in { Missing, TypeArg(ListInt) } }

\* the draft records: one input parameter, or up to two outputs
Drafts ==
    { [input_params |-> <<p>>, output_params |-> <<>>] : p \in DraftInputs }
    \cup { [input_params |-> <<>>, output_params |-> <<o>>] : o \in DraftOutputs }
    \cup { [input_params |-> <<>>, output_params |-> <<o, q>>] :
               o \in DraftOutputs, q \in DraftOutputs }

\* the dict of a draft, with the registry the call finds
DraftRecord(d, reg) ==
    [NewRecord(reg) EXCEPT !.input_params = d.input_params,
                           !.output_params = d.output_params]

\* a call of _unify_parser_results(d, docstring="")
UnifyDraft(d) ==
    /\ ncalls < MaxDrafts
    /\ \E rec \in { _unify_parser_results(DraftRecord(d, registry)) } :
          /\ TYPE_GETTER' = rec.reg.tg
          /\ STRING_GETTER' = rec.reg.sg
          /\ result' = Returned(rec, <<>>)
          /\ last' = [NoCall EXCEPT !.op = "_unify_parser_results",
                                    !.out = rec.out]
    /\ given' = d
    /\ ncalls' = ncalls + 1
    /\ UNCHANGED <<named, pc, loc, doc, got>>

NextUnify == \E d \in Drafts : UnifyDraft(d)

SpecUnify == Init /\ [][NextUnify]_vars

\* C21: for an input parameter whose draft sets neither optional nor
\* positional, the normaliser sets optional true and positional false when
\* the parameter has a default, and positional true and optional false when
\* it has none.
C21_InferredFlags ==
    ( last.op = "_unify_parser_results" /\ result.returned )
    => \A i \in 1..Len(given.input_params) :
          ( /\ given.input_params[i].optional = "unset"
            /\ given.input_params[i].positional = "unset" )
          => IF result.input_params[i].default # Missing
             THEN /\ result.input_params[i].optional = "True"
                  /\ result.input_params[i].positional = "False"
             ELSE /\ result.input_params[i].positional = "True"
                  /\ result.input_params[i].optional = "False"

\* a draft with no flag and no default key, whose default comes from its
\* description
C21_Witness ==
    /\ last.op = "_unify_parser_results"
    /\ result.returned
    /\ Len(given.input_params) = 1
    /\ given.input_params[1].optional = "unset"
    /\ given.input_params[1].positional = "unset"
    /\ given.input_params[1].default = Missing
    /\ result.input_params[1].default # Missing
    /\ result.input_params[1].optional = "True"

\* C22: in every normalised record no input or output parameter has an
\* empty description (the key is missing instead), and every description
\* that is there ends with a period.
C22_Descriptions ==
    result.returned =>
        \A ps \in { result.input_params, result.output_params } :
            \A i \in 1..Len(ps) :
                ps[i].description # Missing
                => /\ ps[i].description.s # <<>>
                   /\ ps[i].description.s[Len(ps[i].description.s)] = "."

\* docstrings made of section headers, entry lines whose types resolve,
\* blank lines and continuation lines
C29_SectionDocs ==
    { d \in GoogleDocs :
        \A i \in 1..Len(d) :
            /\ ~Contains(d[i], "defaults to")
            /\ ~Contains(d[i], "NoSuch")
            /\ ~Contains(d[i], "Alias")
            /\ ~Contains(d[i], "[") }

\* C29: parse_google_docstring returns a record for every sequence of
\* section headers, entry lines, blank lines and continuation lines, also
\* when a continuation or blank line comes right after "Args:" or "Raises:".
C29_Total ==
    ( last.op = "parse_google_docstring" /\ doc \in C29_SectionDocs )
    => ( last.out = "ok" /\ result.returned )

\* C30: a string_to_type call that fails with TypeNotFoundError or TypeError
\* leaves the registry exactly as it was before the call.
C30_FailureFrame ==
    [][ ( /\ last'.op = "string_to_type"
          /\ last'.out \in { "TypeNotFoundError", "TypeError" } )
        => /\ TYPE_GETTER' = TYPE_GETTER
           /\ STRING_GETTER' = STRING_GETTER ]_vars

(***************************************************************************)
(* variables/middleware.py.  A number or None is a sequence of at most one *)
(* integer; valuedata is the function from the names of the attributes it  *)
(* has to their values.                                                    *)
(***************************************************************************)
\* the largest magnitude of a value given to min_max_clamp
MaxValue == 2

None == <<>>

Num(n) == <<n>>

\* getattr(valuedata, name, None)
GetAttrOrNone(valuedata, name) ==
    IF name \in DOMAIN valuedata THEN valuedata[name] ELSE None

\* the explicit bounds are looked up only when the attribute is missing
min_max_clamp_attribute_first(value, valuedata, min, max) ==
    LET mn == IF GetAttrOrNone(valuedata, "min") = None THEN min
              ELSE GetAttrOrNone(valuedata, "min")
        mx == IF GetAttrOrNone(valuedata, "max") = None THEN max
              ELSE GetAttrOrNone(valuedata, "max")
    IN  IF mx # None /\ mn # None /\ mx[1] < mn[1]
        THEN [out |-> "ValueError", val |-> None]
        ELSE IF mn # None /\ value[1] < mn[1] THEN [out |-> "ok", val |-> mn]
        ELSE IF mx # None /\ value[1] > mx[1] THEN [out |-> "ok", val |-> mx]
        ELSE [out |-> "ok", val |-> value]

\* lines 31-42
min_max_clamp(value, valuedata, min, max) ==
    LET mn == IF min = None THEN GetAttrOrNone(valuedata, "min") ELSE min
        mx == IF max = None THEN GetAttrOrNone(valuedata, "max") ELSE max
    IN  IF mx # None /\ mn # None /\ mx[1] < mn[1]
        THEN [out |-> "ValueError", val |-> None]
        ELSE IF mn # None /\ value[1] < mn[1] THEN [out |-> "ok", val |-> mn]
        ELSE IF mx # None /\ value[1] > mx[1] THEN [out |-> "ok", val |-> mx]
        ELSE [out |-> "ok", val |-> value]

\* the values and the bounds given
ClampValues == { Num(n) : n \in (0 - MaxValue)..MaxValue }

ClampBounds == { None } \cup { Num(n) : n \in (1 - MaxValue)..(MaxValue - 1) }

\* objects with the attributes min and max, with one of them, with neither
ValueData ==
    UNION { [names -> ClampBounds] : names \in SUBSET { "min", "max" } }

InitClamp ==
    /\ TYPE_GETTER = InitTypeGetter
    /\ STRING_GETTER = InitStringGetter
    /\ last = NoCall
    /\ named = {}
    /\ ncalls = 0
    /\ pc = [p \in {1, 2} |-> "idle"]
    /\ loc = [p \in {1, 2} |-> [t |-> NoType, name |-> <<>>]]
    /\ doc = <<>>
    /\ result = NoResult
    /\ given \in [value : ClampValues, valuedata : ValueData,
                   min : ClampBounds, max : ClampBounds]
    /\ got = NoArguments

\* the call min_max_clamp(value, valuedata, min, max)
MinMaxClamp ==
    /\ last.op = "none"
    /\ \E r \in { min_max_clamp(given.value, given.valuedata,
                                 given.min, given.max) } :
          /\ last' = [NoCall EXCEPT !.op = "min_max_clamp", !.out = r.out]
          /\ got' = r.val
    /\ ncalls' = ncalls + 1
    /\ UNCHANGED <<TYPE_GETTER, STRING_GETTER, named, pc, loc, doc, result,
                   given>>

NextClamp == MinMaxClamp

SpecClamp == InitClamp /\ [][NextClamp]_vars

\* the bound the claim says applies: the one passed, else the attribute
C28_Bound(name) ==
    IF given[name] # None THEN given[name]
    ELSE IF name \in DOMAIN given.valuedata THEN given.valuedata[name]
    ELSE None

\* the bounds are in order, where both are there
C28_Ordered ==
    ( C28_Bound("min") # None /\ C28_Bound("max") # None )
    => C28_Bound("min")[1] <= C28_Bound("max")[1]

\* C28: with bounds min <= max, min_max_clamp returns the value when it is
\* within the bounds, min when it is below and max when it is above; a
\* bound that is passed wins over valuedata's attribute, and a bound that is
\* nowhere does not constrain the result.
C28_Clamped ==
    ( last.op = "min_max_clamp" /\ C28_Ordered )
    => /\ last.out = "ok"
       /\ got = IF C28_Bound("min") # None
                    /\ given.value[1] < C28_Bound("min")[1]
                 THEN C28_Bound("min")
                 ELSE IF C28_Bound("max") # None
                         /\ given.value[1] > C28_Bound("max")[1]
                 THEN C28_Bound("max")
                 ELSE given.value
       /\ C28_Bound("min") # None => got[1] >= C28_Bound("min")[1]
       /\ C28_Bound("max") # None => got[1] <= C28_Bound("max")[1]

\* a value above the max that was passed, which differs from the attribute
C28_Witness ==
    /\ last.op = "min_max_clamp"
    /\ given.max = Num(0)
    /\ "max" \in DOMAIN given.valuedata
    /\ given.valuedata["max"] = Num(1)
    /\ given.min = None
    /\ given.value = Num(2)
    /\ got = Num(0)

(***************************************************************************)
(* The signature resolver and the merge of signature and docstring.  A     *)
(* callable is [name, kind, params, ret, doc, partials]: the parameters of *)
(* the base function as declared (the receiver first, for a method), its   *)
(* return annotation, its docstring (a sequence holding it, empty when the *)
(* function has none) and the partial applications wrapped around it, the  *)
(* innermost first, each with the number of positional arguments and the   *)
(* names of the keyword arguments it fixes.                                *)
(***************************************************************************)
\* the number of callables handled in a run of SpecFunc
MaxFuncs == 2

\* a parameter of a signature: annotation and default are Missing when the
\* declaration has none
SigParam(name, annotation, default) ==
    [name |-> name, annotation |-> annotation, default |-> default]

\* the values a default may have: the int 1, the str "default", and a dict
\* holding a set, which the serialised form cannot represent
IntOne == [s |-> <<"1">>, t |-> TInt, tag |-> "val"]

StrDefault == [s |-> <<"default">>, t |-> TStr, tag |-> "val"]

SetDefault == [s |-> <<"set">>, t |-> NoType, tag |-> "set"]

Serializable(v) == v.tag # "set"

\* the callable is bound to a receiver, which no caller supplies
HasReceiver(kind) == kind \in { "method", "classmethod", "unbound_method" }

\* one partial application: its positional arguments fix the first
\* parameters still open, its keyword arguments the parameters they name
FoldPartial(params, layer) ==
    SelectSeq(SubSeq(params, layer.args + 1, Len(params)),
              LAMBDA q : q.name \notin layer.kwargs)

RECURSIVE FoldPartials(_, _)
FoldPartials(params, layers) ==
    IF layers = <<>> THEN params
    ELSE FoldPartials(FoldPartial(params, Head(layers)), Tail(layers))

\* a resolver that unwraps the outermost partial application only
get_resolved_signature_one_layer(f) ==
    FoldPartials(IF HasReceiver(f.kind) THEN Tail(f.params) ELSE f.params,
                 IF f.partials = <<>> THEN <<>>
                 ELSE <<f.partials[Len(f.partials)]>>)

\* the parameters a caller still has to supply
get_resolved_signature(f) ==
    FoldPartials(IF HasReceiver(f.kind) THEN Tail(f.params) ELSE f.params,
                 f.partials)

\* every default is taken to be serialisable
Unserializable_unchecked(sig) == 0

\* the first parameter whose default cannot be serialised, 0 when none
Unserializable(sig) ==
    IF \A i \in 1..Len(sig) : Serializable(sig[i].default) THEN 0
    ELSE CHOOSE i \in 1..Len(sig) :
             /\ ~Serializable(sig[i].default)
             /\ \A j \in 1..(i - 1) : Serializable(sig[j].default)

\* the annotations of the signature that are there, in order
Annotations(sig) ==
    LET ann == SelectSeq(sig, LAMBDA q : q.annotation # Missing)
    IN  [i \in 1..Len(ann) |-> ann[i].annotation.t]

\* the position of the parameter at i among the annotated ones
AnnotationIndex(sig, i) ==
    Len(SelectSeq(SubSeq(sig, 1, i), LAMBDA q : q.annotation # Missing))

\* the entries the signature alone gives, n the rendered annotations
SigInputs(sig, n) ==
    [i \in 1..Len(sig) |->
        [NewParam(sig[i].name) EXCEPT
            !.type = IF sig[i].annotation = Missing THEN Missing
                     ELSE StrArg(n.names[AnnotationIndex(sig, i)]),
            !.default = sig[i].default]]

\* the types an output is synthesised for: none for no annotation and for
\* None, one per component of a fixed tuple, else the annotation itself
ReturnTypes(ret) ==
    IF ret = Missing \/ ret.t = NoneType THEN <<>>
    ELSE IF ret.t.k = "Tuple" THEN ret.t.a
    ELSE <<ret.t>>

\* the outputs synthesised from the return annotation, n the rendered types
SigOutputs(n) ==
    [i \in 1..Len(n.names) |->
        [name |-> StrArg(IF Len(n.names) > 1 THEN <<"out", ToString(i - 1)>>
                         ELSE <<"out">>),
         description |-> Missing, type |-> StrArg(n.names[i])]]

\* the position of the docstring's parameter called name, 0 when none is
DocIndex(ps, name) ==
    IF \E j \in 1..Len(ps) : ps[j].name = name
    THEN CHOOSE j \in 1..Len(ps) : ps[j].name = name
    ELSE 0

\* an entry that takes the docstring's type also where the signature has one
MergeInput_docstring_first(e, ps) ==
    LET j == DocIndex(ps, e.name)
        df == IF e.default # Missing \/ j = 0 THEN e.default ELSE ps[j].default
    IN  [e EXCEPT
            !.type = IF j # 0 /\ ps[j].type # Missing THEN ps[j].type
                     ELSE IF e.type # Missing THEN e.type
                     ELSE StrArg(<<"Any">>),
            !.default = df,
            !.description = IF j = 0 THEN Missing ELSE ps[j].description,
            !.optional = IF j = 0 THEN "unset" ELSE ps[j].optional,
            !.positional = IF df = Missing THEN "True" ELSE "False"]

\* one entry of input_params: type and default of the signature first, the
\* docstring's where the signature has none; the description and the
\* optional flag of the docstring
MergeInput(e, ps) ==
    LET j == DocIndex(ps, e.name)
        df == IF e.default # Missing \/ j = 0 THEN e.default ELSE ps[j].default
    IN  [e EXCEPT
            !.type = IF e.type # Missing THEN e.type
                     ELSE IF j # 0 /\ ps[j].type # Missing THEN ps[j].type
                     ELSE StrArg(<<"Any">>),
            !.default = df,
            !.description = IF j = 0 THEN Missing ELSE ps[j].description,
            !.optional = IF j = 0 THEN "unset" ELSE ps[j].optional,
            !.positional = IF df = Missing THEN "True" ELSE "False"]

\* what the caller gets when the call raises
Failed(exc, name, reg) ==
    [out |-> exc, param |-> name, name |-> <<>>, input_params |-> <<>>,
     output_params |-> <<>>, docstring |-> NoResult, reg |-> reg]

\* a merge that keeps the outputs of the docstring under a None annotation
Merge_docstring_outputs(f, ins, outs, rec) ==
    IF rec.out # "ok" THEN Failed(rec.out, <<>>, rec.reg)
    ELSE [out |-> "ok", param |-> <<>>, name |-> f.name,
          input_params |->
              [i \in 1..Len(ins) |-> MergeInput(ins[i], rec.input_params)],
          output_params |->
              IF rec.output_params # <<>> THEN rec.output_params ELSE outs,
          docstring |-> IF f.doc = <<>> THEN NoResult
                        ELSE Returned(rec, f.doc[1]),
          reg |-> rec.reg]

\* the SerializedFunction: ins and outs come from the signature, rec is the
\* docstring record (an empty record when there is no docstring)
Merge(f, ins, outs, rec) ==
    IF rec.out # "ok" THEN Failed(rec.out, <<>>, rec.reg)
    ELSE [out |-> "ok", param |-> <<>>, name |-> f.name,
          input_params |->
              [i \in 1..Len(ins) |-> MergeInput(ins[i], rec.input_params)],
          output_params |->
              IF f.ret # Missing /\ f.ret.t = NoneType THEN <<>>
              ELSE IF rec.output_params # <<>> THEN rec.output_params
              ELSE outs,
          docstring |-> IF f.doc = <<>> THEN NoResult
                        ELSE Returned(rec, f.doc[1]),
          reg |-> rec.reg]

\* the docstring is parsed once the signature has been serialised
WithDocstring(f, sig, n, o) ==
    IF n.out # "ok" THEN Failed(n.out, <<>>, n.reg)
    ELSE IF o.out # "ok" THEN Failed(o.out, <<>>, o.reg)
    ELSE Merge(f, SigInputs(sig, n), SigOutputs(o),
               IF f.doc = <<>> THEN NewRecord(o.reg)
               ELSE parse_docstring(f.doc[1], o.reg))

\* the return annotation is rendered after the parameters
WithOutputs(f, sig, n) ==
    WithDocstring(f, sig, n,
        IF n.out # "ok" THEN n ELSE TtsArgs(ReturnTypes(f.ret), n.reg))

function_method_parser(f, reg) ==
    IF Unserializable(get_resolved_signature(f)) # 0
    THEN Failed("FunctionParamError",
                get_resolved_signature(f)[Unserializable(get_resolved_signature(f))].name,
                reg)
    ELSE WithOutputs(f, get_resolved_signature(f),
                     TtsArgs(Annotations(get_resolved_signature(f)), reg))

(***************************************************************************)
(* The callables given to the two functions.                               *)
(***************************************************************************)
\* the number of partial applications wrapped around a function
MaxPartials == 2

Function(name, params, ret, fdoc) ==
    [name |-> name, kind |-> "function", params |-> params, ret |-> ret,
     doc |-> fdoc, partials |-> <<>>]

\* (a: int), (a, b=1), (a: int, b: str = "default")
PlainParams ==
    { << SigParam(<<"a">>, TypeArg(TInt), Missing) >>,
      << SigParam(<<"a">>, Missing, Missing), SigParam(<<"b">>, Missing, IntOne) >>,
      << SigParam(<<"a">>, TypeArg(TInt), Missing),
         SigParam(<<"b">>, TypeArg(TStr), StrDefault) >> }

\* (a={"unserializable": set()}), (a: int, b={"unserializable": set()})
SetParams ==
    { << SigParam(<<"a">>, Missing, SetDefault) >>,
      << SigParam(<<"a">>, TypeArg(TInt), Missing),
         SigParam(<<"b">>, Missing, SetDefault) >> }

\* "Args:" / "a (float): first" / "b (int, optional): second defaults to 1"
\* / "" / "Returns:" / "int: more." / "float: second."
DocTyped ==
    << <<"Args", ":">>,
       <<"a", " ", "(", "float", ")", ":", " ", "first">>,
       <<"b", " ", "(", "int", ",", " ", "optional", ")", ":", " ", "second",
         " ", "defaults to", " ", "1">>,
       <<>>,
       <<"Returns", ":">>,
       <<"int", ":", " ", "more", ".">>,
       <<"float", ":", " ", "second", ".">> >>

\* ":param a: first" / ":type a: float"
DocRst == RstTyped(<<"float">>)

\* "Summary"
DocSummary == << <<"Summary">> >>

\* "Returns:" / "int: more"
DocReturns == << <<"Returns", ":">>, <<" ", "int", ":", " ", "more">> >>

\* "Args:" / "wrong more", which parse_google_docstring cannot parse
DocBroken == << <<"Args", ":">>, <<"wrong", " ", "more">> >>

ReturnAnnotations ==
    { Missing, TypeArg(NoneType), TypeArg(TInt), TypeArg(TupleIntStr),
      TypeArg(ListInt) }

\* functions as the tests declare them
PlainFuncs ==
    { Function(<<"docstring_type">>, ps, ret, fdoc) :
        ps \in PlainParams, ret \in { Missing, TypeArg(TInt) },
        fdoc \in { <<>>, <<DocTyped>>, <<DocRst>> } }
    \cup { Function(<<"returns">>, ps, ret, fdoc) :
        ps \in { <<>> }, ret \in ReturnAnnotations,
        fdoc \in { <<>>, <<DocSummary>>, <<DocReturns>>, <<DocTyped>>,
                   <<DocBroken>> } }
    \cup { Function(<<"unserializable_default">>, ps, ret, fdoc) :
        ps \in SetParams, ret \in { Missing, TypeArg(NoneType) },
        fdoc \in { <<>>, <<DocTyped>>, <<DocBroken>> } }

\* def example(a, b, c=3, d=4), with self or cls first for a method
Example(kind) ==
    (IF HasReceiver(kind)
     THEN << SigParam(<<IF kind = "classmethod" THEN "cls" ELSE "self">>,
                      Missing, Missing) >>
     ELSE <<>>)
    \o << SigParam(<<"a">>, Missing, Missing), SigParam(<<"b">>, Missing, Missing),
          SigParam(<<"c">>, Missing, IntOne), SigParam(<<"d">>, Missing, IntOne) >>

\* partial(f, ...) with at most one positional argument and maybe d=...
Layers == [args : 0..1, kwargs : { {}, { <<"d">> } }]

RECURSIVE Chains(_)
\* the chains of at most n partial applications
Chains(n) ==
    IF n = 0 THEN { <<>> }
    ELSE Chains(n - 1)
         \cup { Append(c, l) : c \in { c \in Chains(n - 1) : Len(c) = n - 1 },
                               l \in Layers }

Kinds == { "function", "method", "classmethod", "staticmethod", "unbound_method" }

PartialFuncs ==
    { [name |-> <<"example">>, kind |-> kind, params |-> Example(kind),
       ret |-> Missing, doc |-> <<>>, partials |-> c] :
        kind \in Kinds, c \in Chains(MaxPartials) }

Callables == PlainFuncs \cup PartialFuncs

\* a call of function_method_parser(f)
FunctionMethodParser(f) ==
    /\ ncalls < MaxFuncs
    /\ \E r \in { function_method_parser(f, registry) } :
          /\ TYPE_GETTER' = r.reg.tg
          /\ STRING_GETTER' = r.reg.sg
          /\ last' = [NoCall EXCEPT !.op = "function_method_parser",
                                    !.out = r.out, !.name = r.param]
          /\ got' = [name |-> r.name, input_params |-> r.input_params,
                     output_params |-> r.output_params,
                     docstring |-> r.docstring]
    /\ given' = f
    /\ ncalls' = ncalls + 1
    /\ UNCHANGED <<named, pc, loc, doc, result>>

\* a call of get_resolved_signature(f)
GetResolvedSignature(f) ==
    /\ ncalls < MaxFuncs
    /\ last' = [NoCall EXCEPT !.op = "get_resolved_signature", !.out = "ok"]
    /\ got' = get_resolved_signature(f)
    /\ given' = f
    /\ ncalls' = ncalls + 1
    /\ UNCHANGED <<TYPE_GETTER, STRING_GETTER, named, pc, loc, doc, result>>

NextFunc ==
    \/ \E f \in Callables : FunctionMethodParser(f)
    \/ \E f \in Callables : GetResolvedSignature(f)

SpecFunc == Init /\ [][NextFunc]_vars

\* the outputs are named by their position
C23_ByPosition(os) ==
    \A i \in 1..Len(os) :
        os[i].name = StrArg(IF Len(os) > 1 THEN <<"out", ToString(i - 1)>>
                            ELSE <<"out">>)

\* C23: outputs without a name of their own are named "out" when there is
\* one and "out0", "out1", ... in order when there are more, both the
\* outputs parsed from a docstring's return section and the outputs
\* synthesised from a fixed-tuple return annotation, which are one per
\* component, in order, without description.
C23_OutputNames ==
    ( last.op = "function_method_parser" /\ last.out = "ok" )
    => /\ C23_ByPosition(got.docstring.output_params)
       /\ C23_ByPosition(got.output_params)
       /\ ( /\ given.ret # Missing
            /\ given.ret.t.k = "Tuple"
            /\ got.docstring.output_params = <<>> )
          => /\ Len(got.output_params) = Len(given.ret.t.a)
             /\ \A i \in 1..Len(got.output_params) :
                   /\ got.output_params[i].description = Missing
                   /\ got.output_params[i].type
                          = StrArg(NameOf(STRING_GETTER, given.ret.t.a[i]))

\* two outputs parsed from a return section
C23_Witness ==
    /\ last.op = "function_method_parser"
    /\ last.out = "ok"
    /\ given.doc = <<DocTyped>>
    /\ Len(got.docstring.output_params) = 2
    /\ got.docstring.output_params[2].name = StrArg(<<"out", "1">>)
    /\ got.output_params = got.docstring.output_params

\* the parameter of the signature called name
C24_Declared(name) ==
    CHOOSE q \in { given.params[i] : i \in 1..Len(given.params) } : q.name = name

\* the type the docstrings of the model give a parameter: a is a float, b
\* an int
C24_DocType(name) == IF name = <<"a">> THEN <<"float">> ELSE <<"int">>

\* C24: for a parameter of the signature that the docstring declares too,
\* the top-level entry has the type of the signature's annotation when
\* there is one and the docstring's type otherwise, while the entry of the
\* nested docstring record keeps the docstring's type.
C24_SignatureTypeWins ==
    ( last.op = "function_method_parser" /\ last.out = "ok" )
    => \A i \in 1..Len(got.input_params) :
          \A j \in 1..Len(got.docstring.input_params) :
              got.docstring.input_params[j].name = got.input_params[i].name
              => /\ got.docstring.input_params[j].type
                        = StrArg(C24_DocType(got.input_params[i].name))
                 /\ got.input_params[i].type
                        = IF C24_Declared(got.input_params[i].name).annotation
                                 # Missing
                          THEN StrArg(NameOf(STRING_GETTER,
                                   C24_Declared(got.input_params[i].name)
                                       .annotation.t))
                          ELSE got.docstring.input_params[j].type

\* a: int in the signature, a (float) in the docstring
C24_Witness ==
    /\ last.op = "function_method_parser"
    /\ last.out = "ok"
    /\ given.doc = <<DocTyped>>
    /\ given.params[1].annotation = TypeArg(TInt)
    /\ got.input_params[1].type = StrArg(<<"int">>)
    /\ got.docstring.input_params[1].type = StrArg(<<"float">>)

\* C25: a callable whose return annotation is None has no output_params in
\* its SerializedFunction, whatever the return section of its docstring
\* declares.
C25_NoneReturnsNothing ==
    ( /\ last.op = "function_method_parser"
      /\ last.out = "ok"
      /\ given.ret = TypeArg(NoneType) )
    => got.output_params = <<>>

\* -> None with a docstring that declares an output
C25_Witness ==
    /\ last.op = "function_method_parser"
    /\ last.out = "ok"
    /\ given.ret = TypeArg(NoneType)
    /\ got.docstring.returned
    /\ got.docstring.output_params # <<>>
    /\ got.output_params = <<>>

\* C26: when the default of a parameter cannot be serialised,
\* function_method_parser fails with FunctionParamError naming that
\* parameter and returns nothing, whatever else the callable has.
C26_UnserializableDefault ==
    ( /\ last.op = "function_method_parser"
      /\ \E i \in 1..Len(given.params) : given.params[i].default = SetDefault )
    => /\ last.out = "FunctionParamError"
       /\ \E i \in 1..Len(given.params) :
             /\ given.params[i].default = SetDefault
             /\ last.name = given.params[i].name
       /\ got = [name |-> <<>>, input_params |-> <<>>,
                 output_params |-> <<>>, docstring |-> NoResult]

\* the second parameter has the default, and the docstring is one the
\* parser would fail on
C26_Witness ==
    /\ last.op = "function_method_parser"
    /\ last.out = "FunctionParamError"
    /\ last.name = <<"b">>
    /\ given.doc = <<DocBroken>>
    /\ given.params[2].default = SetDefault

RECURSIVE C27_Positional(_)
\* the number of positional arguments the chain fixes
C27_Positional(layers) ==
    IF layers = <<>> THEN 0
    ELSE Head(layers).args + C27_Positional(Tail(layers))

\* the names the chain fixes by keyword
C27_Keywords(layers) ==
    UNION { layers[i].kwargs : i \in 1..Len(layers) }

\* the declared parameters without the receiver of a bound method
C27_Visible ==
    IF given.kind \in { "method", "classmethod" } THEN Tail(given.params)
    ELSE given.params

====
